---- MODULE Spec2Model ----
(***************************************************************************)
(* A model of serverConn (server_conn.go): the connection of the mc        *)
(* memcached client to one server.  The wire format is modelled byte by    *)
(* byte.  TLC integers are 32-bit signed, so a 32-bit or 64-bit unsigned   *)
(* value is kept as its sequence of base-65536 digits, most significant    *)
(* first (a uint32 is <<hi, lo>>, a uint64 four digits); a uint8 or uint16 *)
(* is a one-digit sequence.  Strings are sequences of bytes.               *)
(***************************************************************************)
EXTENDS Integers, Sequences, FiniteSets, TLC

VARIABLES
    sc,      \* the serverConn and the sockets it has dialed
    m,       \* the caller's msg, as the last call left it
    last,    \* what the last call was given and what it returned
    ncalls,  \* number of calls made on the connection
    arena    \* the body buffers and the pools that hold them

vars == <<sc, m, last, ncalls, arena>>

----------------------------------------------------------------------------
(* Bounds of the model *)

MaxCalls == 2
MaxDials == 2
MaxStats == 2
MaxExtras == 2
MaxFault == 1
LongExtras == 32
MaxBufs == 3
MaxCallers == 2

----------------------------------------------------------------------------
(* Protocol constants declared in files of the package other than          *)
(* server_conn.go                                                          *)

magicSend == 128
magicRecv == 129

opGet == 0
opSet == 1
opQuit == 7
opStat == 16
opAuthList == 32
opAuthStart == 33

StatusOK == 0
StatusNotFound == 1
StatusAuthRequired == 32
StatusUnknownCommand == 129
StatusAuthUnknown == 65535
StatusNetworkError == 65527

----------------------------------------------------------------------------
(* Errors: a nil error, or an *Error with its Status *)

NilErr == [isNil |-> TRUE, Status |-> 0]

ErrorOf(status) == [isNil |-> FALSE, Status |-> status]

wrapError(status) == ErrorOf(status)

newError(status) == IF status = StatusOK THEN NilErr ELSE ErrorOf(status)

----------------------------------------------------------------------------
(* Bytes and big-endian integers *)

RECURSIVE Concat(_)
Concat(ss) == IF ss = <<>> THEN <<>> ELSE Head(ss) \o Concat(Tail(ss))

Take(s, n) == SubSeq(s, 1, n)

Drop(s, n) == SubSeq(s, n + 1, Len(s))

Digits(w) == IF w = 8 THEN 4 ELSE IF w = 4 THEN 2 ELSE 1

Zero(w) == [i \in 1..Digits(w) |-> 0]

\* binary.BigEndian.PutUint16/32/64 and WriteByte: the w bytes of value v
PutUint(w, v) ==
    IF w = 1 THEN <<v[1] % 256>>
    ELSE Concat([i \in 1..Len(v) |-> <<v[i] \div 256, v[i] % 256>>])

\* binary.BigEndian.Uint16/32/64 and a byte read: the value of the first w
\* bytes of b
Uint(w, b) ==
    IF w = 1 THEN <<b[1]>>
    ELSE [i \in 1..Digits(w) |-> b[2 * i - 1] * 256 + b[2 * i]]

\* a number below 2^31 as a uint32
U32(n) == <<(n \div 65536) % 65536, n % 65536>>

\* x + 1 that stays at the largest uint32
Inc32Saturating(x) ==
    IF x[2] = 65535
    THEN (IF x[1] = 65535 THEN x ELSE <<x[1] + 1, 0>>)
    ELSE <<x[1], x[2] + 1>>

\* x + 1 on a uint32
Inc32(x) ==
    IF x[2] = 65535 THEN <<(x[1] + 1) % 65536, 0>> ELSE <<x[1], x[2] + 1>>

----------------------------------------------------------------------------
(* msg: the header, the extras to send (iextras), the destinations of the  *)
(* extras received (oextras: the width of each pointer, 0 for a pointer of *)
(* another type; dest: the values the pointers point at), key and val      *)

Extra(w, v) == [w |-> w, v |-> v]

NewMsg(op, iextras, oextras, key, val) ==
    [ Magic |-> 0, Op |-> op, KeyLen |-> 0, ExtraLen |-> 0, DataType |-> 0,
      ResvOrStatus |-> 0, BodyLen |-> Zero(4), Opaque |-> Zero(4),
      CAS |-> Zero(8),
      iextras |-> iextras, oextras |-> oextras,
      dest |-> [i \in 1..Len(oextras) |-> Zero(oextras[i])],
      key |-> key, val |-> val ]

\* sizeOfExtras: the sum of the widths in a uint8; an element of another
\* type panics
RECURSIVE SumWidths(_)
SumWidths(extras) ==
    IF extras = <<>> THEN 0 ELSE Head(extras).w + SumWidths(Tail(extras))

HasUnknownExtra(extras) == \E i \in 1..Len(extras) : extras[i].w = 0

sizeOfExtras(extras) == SumWidths(extras) % 256

\* the 24 bytes send puts in hdrBuf
HeaderBytes(h) ==
    <<h.Magic, h.Op>> \o PutUint(2, <<h.KeyLen>>) \o <<h.ExtraLen, h.DataType>>
      \o PutUint(2, <<h.ResvOrStatus>>) \o PutUint(4, h.BodyLen)
      \o PutUint(4, h.Opaque) \o PutUint(8, h.CAS)

ExtrasBytes(extras) == [i \in 1..Len(extras) |-> PutUint(extras[i].w, extras[i].v)]

----------------------------------------------------------------------------
(* backupMsg and restoreMsg.  A slice of extras is its backing array and   *)
(* its length; the capacity is the length of the array.  The snapshot slot *)
(* keeps its slices; the slices of a msg are full (the capacity is the     *)
(* length).                                                                *)

HeaderFields ==
    { "Magic", "Op", "KeyLen", "ExtraLen", "DataType", "ResvOrStatus",
      "BodyLen", "Opaque", "CAS" }

\* m.header
HeaderOf(mm) == [f \in HeaderFields |-> mm[f]]

Slice(arr, len) == [arr |-> arr, len |-> len]

\* the elements of a slice
View(sl) == SubSeq(sl.arr, 1, sl.len)

\* make([]interface{}, n): n nil elements
Make(n, nil) == Slice([i \in 1..n |-> nil], n)

\* if cap(dst) >= n { dst = dst[:n] } else { dst = make([]interface{}, n) }
Reslice(dst, n, nil) ==
    IF Len(dst.arr) >= n THEN Slice(dst.arr, n) ELSE Make(n, nil)

\* copy(dst, src): as many elements as the shorter of the two holds
Copy(dst, src) ==
    Slice([i \in 1..Len(dst.arr) |->
             IF i <= dst.len /\ i <= Len(src) THEN src[i] ELSE dst.arr[i]],
          dst.len)

\* backupMsg copying into the slices of the slot as long as they are
backupMsgNoReslice(mm, b) ==
    [ key |-> mm.key, val |-> mm.val, header |-> HeaderOf(mm),
      iextras |-> Copy(b.iextras, mm.iextras),
      oextras |-> Copy(b.oextras, mm.oextras) ]

\* backupMsg(m, &sc.backupMsg): the slot after the call, b before it
backupMsg(mm, b) ==
    [ key |-> mm.key, val |-> mm.val, header |-> HeaderOf(mm),
      iextras |-> Copy(Reslice(b.iextras, Len(mm.iextras), Extra(0, <<>>)), mm.iextras),
      oextras |-> Copy(Reslice(b.oextras, Len(mm.oextras), 0), mm.oextras) ]

\* restoreMsg leaving the header of the msg as it is
restoreMsgBody(mm, b) ==
    [ f \in DOMAIN mm |->
        IF f = "key" THEN b.key
        ELSE IF f = "val" THEN b.val
        ELSE IF f = "iextras" THEN View(b.iextras)
        ELSE IF f = "oextras" THEN View(b.oextras)
        ELSE mm[f] ]

\* restoreMsg(m, &sc.backupMsg): the msg after the call.  The destinations
\* the pointers of oextras point at are not part of the msg and keep their
\* values.
restoreMsg(mm, b) ==
    [ f \in DOMAIN mm |->
        IF f \in HeaderFields THEN b.header[f]
        ELSE IF f = "key" THEN b.key
        ELSE IF f = "val" THEN b.val
        ELSE IF f = "iextras"
        THEN View(Copy(Reslice(Slice(mm.iextras, Len(mm.iextras)),
                               b.iextras.len, Extra(0, <<>>)),
                       View(b.iextras)))
        ELSE IF f = "oextras"
        THEN View(Copy(Reslice(Slice(mm.oextras, Len(mm.oextras)),
                               b.oextras.len, 0),
                       View(b.oextras)))
        ELSE mm[f] ]

----------------------------------------------------------------------------
(* The arena: getBodyBuffer and putBodyBuffer over the three pools.  A     *)
(* buffer is a record of its capacity, its length and where it is: handed  *)
(* out ("held"), in a pool ("small", "medium", "large") or in none         *)
(* ("dropped").  arena is the sequence of the buffers allocated so far.    *)
(* The specifications of the connection list the calls recv makes in       *)
(* sc.bufs and leave arena alone: io.ReadFull fills the whole buffer       *)
(* before recv reads it, so nothing recv returns depends on the pools.     *)

smallSize == 256
mediumSize == 4096
largeSize == 65536

\* the capacity New gives the buffers of a pool
NewCap(pool) ==
    IF pool = "small" THEN smallSize
    ELSE IF pool = "medium" THEN mediumSize
    ELSE largeSize

\* what getBodyBuffer returns: the arena, the buffer handed out (0 for
\* none) and whether slicing it to size panicked
Got(a, id, panic) == [arena |-> a, id |-> id, panic |-> panic]

\* pool.Get().([]byte)[:size] on buffer id, or on a new buffer of capacity
\* cap when id is one more than the buffers allocated; a slice longer than
\* the capacity panics
Sliced(a, id, cap, size) ==
    IF size > cap THEN Got(a, 0, TRUE)
    ELSE IF id > Len(a)
    THEN Got(Append(a, [cap |-> cap, len |-> size, at |-> "held"]), id, FALSE)
    ELSE Got([a EXCEPT ![id].len = size, ![id].at = "held"], id, FALSE)

\* a pool that also hands out a buffer that is still held
PoolGetHeld(a, pool, size) ==
    { Sliced(a, id, a[id].cap, size) :
        id \in { i \in 1..Len(a) : a[i].at \in {pool, "held"} } }
      \cup (IF Len(a) < MaxBufs
            THEN { Sliced(a, Len(a) + 1, NewCap(pool), size) }
            ELSE {})

\* sync.Pool.Get of the pool: one of the buffers in it, or a new one (no
\* more than MaxBufs buffers are allocated)
PoolGet(a, pool, size) ==
    { Sliced(a, id, a[id].cap, size) : id \in { i \in 1..Len(a) : a[i].at = pool } }
      \cup (IF Len(a) < MaxBufs
            THEN { Sliced(a, Len(a) + 1, NewCap(pool), size) }
            ELSE {})

\* getBodyBuffer(size): the set of the results the pools allow
getBodyBuffer(a, size) ==
    IF size <= smallSize THEN PoolGet(a, "small", size)
    ELSE IF size <= mediumSize THEN PoolGet(a, "medium", size)
    ELSE IF size <= largeSize THEN PoolGet(a, "large", size)
    ELSE IF Len(a) < MaxBufs THEN { Sliced(a, Len(a) + 1, size, size) }
    ELSE {}

putBodyBufferAtLeast(a, id) ==
    LET c == a[id].cap
    IN  IF c = smallSize THEN [a EXCEPT ![id].len = c, ![id].at = "small"]
        ELSE IF c = mediumSize THEN [a EXCEPT ![id].len = c, ![id].at = "medium"]
        ELSE IF c >= largeSize THEN [a EXCEPT ![id].len = c, ![id].at = "large"]
        ELSE [a EXCEPT ![id].at = "dropped"]

\* putBodyBuffer(buf): by the capacity of buf
putBodyBuffer(a, id) ==
    LET c == a[id].cap
    IN  IF c = smallSize THEN [a EXCEPT ![id].len = c, ![id].at = "small"]
        ELSE IF c = mediumSize THEN [a EXCEPT ![id].len = c, ![id].at = "medium"]
        ELSE IF c = largeSize THEN [a EXCEPT ![id].len = c, ![id].at = "large"]
        ELSE [a EXCEPT ![id].at = "dropped"]

----------------------------------------------------------------------------
(* The serverConn and its sockets.  conn and rw are 0 for nil, else the    *)
(* number of the socket they wrap.  A socket records whether it is open,   *)
(* how often Close was called on it, the requests handed to its writer     *)
(* (out) and the bytes the server has sent that are not read yet (rbuf).   *)
(* events is the trace of the call in progress: what it dialed, sent,      *)
(* received and closed, in order; it is not part of the program's state.   *)
(* bufs is the trace of the calls the call in progress made of the arena:  *)
(* the body buffers it got and those it put back, in order.  stale is what  *)
(* the buffer the pool hands to recv holds from its use before.            *)

NewSocket == [open |-> TRUE, closes |-> 0, out |-> <<>>, rbuf |-> <<>>]

newServerConn(scheme, username, password) ==
    [ scheme |-> scheme, username |-> username, password |-> password,
      conn |-> 0, rw |-> 0, opq |-> Zero(4), socks |-> <<>>, events |-> <<>>,
      bufs |-> <<>>, stale |-> <<>>,
      backupMsg |-> [ key |-> <<>>, val |-> <<>>,
                      header |-> HeaderOf(NewMsg(0, <<>>, <<>>, <<>>, <<>>)),
                      iextras |-> Slice(<<>>, 0), oextras |-> Slice(<<>>, 0) ] ]

\* an event of the trace: e is "dial", "connect", "send", "recv" or "close";
\* how tells how it ended, status and val are the status and the value of
\* a response received
Event(e, sock, op, how, status) ==
    [e |-> e, sock |-> sock, op |-> op, how |-> how, status |-> status,
     val |-> <<>>]

Emit(st, ev) == [st EXCEPT !.events = Append(@, ev)]

\* what a step of an exchange returns: the connection, the msg, the error,
\* and whether the step panicked instead of returning
Ret(st, mm, err) == [st |-> st, m |-> mm, err |-> err, panic |-> FALSE]

Panic(st, mm) == [st |-> st, m |-> mm, err |-> NilErr, panic |-> TRUE]

\* sc.conn.Close() that leaves sc.conn set
closeConnKeep(st) ==
    IF st.conn # 0
    THEN [st EXCEPT !.socks[st.conn].open = FALSE,
                    !.socks[st.conn].closes = @ + 1,
                    !.rw = 0,
                    !.events = Append(@, Event("close", st.conn, 0, "ok", 0))]
    ELSE st

\* sc.conn.Close(); sc.conn = nil; sc.rw = nil, guarded by sc.conn != nil
closeConn(st) ==
    IF st.conn # 0
    THEN [st EXCEPT !.socks[st.conn].open = FALSE,
                    !.socks[st.conn].closes = @ + 1,
                    !.conn = 0, !.rw = 0,
                    !.events = Append(@, Event("close", st.conn, 0, "ok", 0))]
    ELSE st

\* resetConn without its effect
resetConnNever(st, err) == st

\* resetConn on every error, whatever its status
resetConnAlways(st, err) == closeConn(st)

resetConn(st, err) ==
    IF err.Status = StatusNetworkError THEN closeConn(st) ELSE st

\* send, lines 243-247: the header fields of the request
Stamp(mm, extraLen, keyLen, opq) ==
    [mm EXCEPT !.Magic = magicSend,
               !.ExtraLen = extraLen,
               !.KeyLen = keyLen,
               !.BodyLen = U32(extraLen + keyLen + Len(mm.val)),
               !.Opaque = opq]

\* the write calls of send, in order: the header, each element of iextras,
\* the key and the value when not empty.  Flush is one more call.
Writes(mm) ==
    <<HeaderBytes(mm)>> \o ExtrasBytes(mm.iextras)
      \o (IF Len(mm.key) > 0 THEN <<mm.key>> ELSE <<>>)
      \o (IF Len(mm.val) > 0 THEN <<mm.val>> ELSE <<>>)

\* the socket of the connection after send handed a request to its writer
Handed(st, op, bytes, ok) ==
    [st EXCEPT !.socks[st.conn].out =
                   Append(@, [op |-> op, bytes |-> bytes, ok |-> ok]),
               !.events =
                   Append(@, Event("send", st.conn, op,
                                   IF ok THEN "ok" ELSE "failed", 0))]

\* send from line 262 on: the write calls ws, of which wf tells the one that
\* fails: 0 for none, 1 for Flush, k + 1 for the k-th last write before it
\* (none when there are fewer writes)
sendWrites(st, mm, ws, wf) ==
    IF st.conn = 0 \/ st.rw = 0 THEN Panic(st, mm)
    ELSE IF wf >= 1 /\ wf <= Len(ws) + 1
    THEN Ret(Handed(st, mm.Op, Concat(Take(ws, Len(ws) + 1 - wf)), FALSE),
             mm, wrapError(StatusNetworkError))
    ELSE Ret(Handed(st, mm.Op, Concat(ws), TRUE), mm, NilErr)

sendStamped(st, mm, wf) == sendWrites(st, mm, Writes(mm), wf)

send(st, mm, wf) ==
    IF HasUnknownExtra(mm.iextras) THEN Panic(st, [mm EXCEPT !.Magic = magicSend])
    ELSE sendStamped([st EXCEPT !.opq = Inc32(st.opq)],
                     Stamp(mm, sizeOfExtras(mm.iextras), Len(mm.key) % 65536,
                           st.opq),
                     wf)

\* the loop of recv with an offset that stays where it is
RECURSIVE readExtrasNoAdvance(_, _, _, _, _)
readExtrasNoAdvance(oextras, dest, extrasBuf, i, offset) ==
    IF i > Len(oextras) THEN [dest |-> dest, err |-> NilErr]
    ELSE IF oextras[i] = 0
    THEN [dest |-> dest, err |-> wrapError(StatusNetworkError)]
    ELSE IF offset + oextras[i] > Len(extrasBuf)
    THEN [dest |-> dest, err |-> wrapError(StatusNetworkError)]
    ELSE readExtrasNoAdvance(oextras,
                    [dest EXCEPT ![i] = Uint(oextras[i], Drop(extrasBuf, offset))],
                    extrasBuf, i + 1, offset)

\* the loop of recv over oextras: destination i is read at offset of
\* extrasBuf
RECURSIVE readExtras(_, _, _, _, _)
readExtras(oextras, dest, extrasBuf, i, offset) ==
    IF i > Len(oextras) THEN [dest |-> dest, err |-> NilErr]
    ELSE IF oextras[i] = 0
    THEN [dest |-> dest, err |-> wrapError(StatusNetworkError)]
    ELSE IF offset + oextras[i] > Len(extrasBuf)
    THEN [dest |-> dest, err |-> wrapError(StatusNetworkError)]
    ELSE readExtras(oextras,
                    [dest EXCEPT ![i] = Uint(oextras[i], Drop(extrasBuf, offset))],
                    extrasBuf, i + 1, offset + oextras[i])

\* the header fields recv parses from hdrBuf
ParseHeader(mm, hdr) ==
    [mm EXCEPT !.Magic = hdr[1], !.Op = hdr[2],
               !.KeyLen = Uint(2, SubSeq(hdr, 3, 4))[1],
               !.ExtraLen = hdr[5], !.DataType = hdr[6],
               !.ResvOrStatus = Uint(2, SubSeq(hdr, 7, 8))[1],
               !.BodyLen = Uint(4, SubSeq(hdr, 9, 12)),
               !.Opaque = Uint(4, SubSeq(hdr, 13, 16)),
               !.CAS = Uint(8, SubSeq(hdr, 17, 24))]

\* the trace after recv ended: how is "header", "body", "extras" or "key"
\* for the part it failed on, "decoded" when it decoded the response
Received(st, mm, how) ==
    Emit(st, Event("recv", st.conn, mm.Op, how, mm.ResvOrStatus))

\* recv taking as the key what is there when fewer bytes than keyLength
\* are left
recvKeyLenient(st, mm, ex, buf) ==
    IF ~ex.err.isNil
    THEN Ret(Received(st, mm, "extras"), [mm EXCEPT !.dest = ex.dest], ex.err)
    ELSE Ret(Emit(st, [Event("recv", st.conn, mm.Op, "decoded", mm.ResvOrStatus)
                         EXCEPT !.val = Drop(buf, mm.KeyLen)]),
             [mm EXCEPT !.dest = ex.dest,
                        !.key = IF Len(buf) < mm.KeyLen THEN buf
                                ELSE Take(buf, mm.KeyLen),
                        !.val = Drop(buf, mm.KeyLen)],
             newError(mm.ResvOrStatus))

\* recv, lines 389-399: the key, the value and the status, after the extras
\* were read with result ex and buf is what follows them
recvKey(st, mm, ex, buf) ==
    IF ~ex.err.isNil
    THEN Ret(Received(st, mm, "extras"), [mm EXCEPT !.dest = ex.dest], ex.err)
    ELSE IF Len(buf) < mm.KeyLen
    THEN Ret(Received(st, mm, "key"), [mm EXCEPT !.dest = ex.dest],
             wrapError(StatusNetworkError))
    ELSE Ret(Emit(st, [Event("recv", st.conn, mm.Op, "decoded", mm.ResvOrStatus)
                         EXCEPT !.val = Drop(buf, mm.KeyLen)]),
             [mm EXCEPT !.dest = ex.dest,
                        !.key = Take(buf, mm.KeyLen),
                        !.val = Drop(buf, mm.KeyLen)],
             newError(mm.ResvOrStatus))

\* recv, lines 343-387: the extras of the body
recvExtras(st, mm, body) ==
    IF mm.ResvOrStatus = 0 /\ mm.ExtraLen > 0
    THEN IF Len(body) < mm.ExtraLen
         THEN Ret(Received(st, mm, "extras"), mm, wrapError(StatusNetworkError))
         ELSE recvKey(st, mm,
                      readExtras(mm.oextras, mm.dest, Take(body, mm.ExtraLen), 1, 0),
                      Drop(body, mm.ExtraLen))
    ELSE recvKey(st, mm, [dest |-> mm.dest, err |-> NilErr], body)

\* the socket of the connection with rest left to read
Unread(st, rest) == [st EXCEPT !.socks[st.conn].rbuf = rest]

\* getBodyBuffer(size) as recv sees it: the first size bytes of a buffer
\* that holds stale, and zeros where it was never written
Pooled(stale, size) ==
    [i \in 1..size |-> IF i <= Len(stale) THEN stale[i] ELSE 0]

\* io.ReadFull(sc.rw, buf): the buffer, filled as far as the stream goes
ReadFull(buf, stream) ==
    [i \in 1..Len(buf) |-> IF i <= Len(stream) THEN stream[i] ELSE buf[i]]

\* recv taking as the body all that the socket has, and bodyLength bytes of
\* it as the buffer
recvBodyGreedy(st, mm, rest) ==
    IF mm.BodyLen[1] > 0 \/ mm.BodyLen[2] > Len(rest)
    THEN Ret(Received(Unread(st, <<>>), mm, "body"), mm,
             wrapError(StatusNetworkError))
    ELSE recvExtras(Unread(st, <<>>), mm,
                    ReadFull(Pooled(st.stale, mm.BodyLen[2]), rest))

\* recv decoding the buffer as long as the pool handed it, not sliced to
\* bodyLength
recvBodyUnsliced(st, mm, rest) ==
    IF mm.BodyLen[1] > 0 \/ mm.BodyLen[2] > Len(rest)
    THEN Ret(Received(Unread(st, <<>>), mm, "body"), mm,
             wrapError(StatusNetworkError))
    ELSE recvExtras(Unread(st, Drop(rest, mm.BodyLen[2])), mm,
                    ReadFull(Pooled(st.stale, mm.BodyLen[2]), rest)
                      \o Drop(st.stale, mm.BodyLen[2]))

\* recv, lines 334-341: the body, read in full from what follows the header.
\* io.ReadFull fails when fewer bytes arrive than asked for; the streams of
\* the model are shorter than 65536 bytes.
recvBody(st, mm, rest) ==
    IF mm.BodyLen[1] > 0 \/ mm.BodyLen[2] > Len(rest)
    THEN Ret(Received(Unread(st, <<>>), mm, "body"), mm,
             wrapError(StatusNetworkError))
    ELSE recvExtras(Unread(st, Drop(rest, mm.BodyLen[2])), mm,
                    ReadFull(Pooled(st.stale, mm.BodyLen[2]), rest))

\* recv, line 336: body := getBodyBuffer(int(m.BodyLen)); the buffer got
\* is numbered by its place in the trace
gotBody(st, mm) ==
    [st EXCEPT !.bufs = Append(@, [op |-> "get", id |-> Len(@) + 1,
                                   size |-> mm.BodyLen])]

\* recv putting the body buffer back only when it returns no error
deferPutOnSuccess(r, id) ==
    IF r.err.isNil
    THEN [r EXCEPT !.st.bufs = Append(@, [op |-> "put", id |-> id,
                                          size |-> r.m.BodyLen])]
    ELSE r

\* recv, line 337: defer putBodyBuffer(body), run when recv returns r
deferPut(r, id) ==
    [r EXCEPT !.st.bufs = Append(@, [op |-> "put", id |-> id,
                                     size |-> r.m.BodyLen])]

\* recv, lines 334-399: from the header parsed to the return
recvParsed(st, mm, rest) ==
    deferPut(recvBody(gotBody(st, mm), mm, rest), Len(st.bufs) + 1)

\* recv refusing a response that has not the magic of a response or the
\* opaque of the request
recvStreamMatching(st, mm, stream) ==
    IF Len(stream) < 24
    THEN Ret(Received(Unread(st, <<>>), mm, "header"), mm,
             wrapError(StatusNetworkError))
    ELSE IF stream[1] # magicRecv \/ Uint(4, SubSeq(stream, 13, 16)) # mm.Opaque
    THEN Ret(Received(Unread(st, <<>>), mm, "header"), mm,
             wrapError(StatusNetworkError))
    ELSE recvParsed(st, ParseHeader(mm, Take(stream, 24)), Drop(stream, 24))

\* recv, lines 318-332: the header, read in full from the stream
recvStream(st, mm, stream) ==
    IF Len(stream) < 24
    THEN Ret(Received(Unread(st, <<>>), mm, "header"), mm,
             wrapError(StatusNetworkError))
    ELSE recvParsed(st, ParseHeader(mm, Take(stream, 24)), Drop(stream, 24))

\* recv, where chunk is what the server sends before the read deadline
recv(st, mm, chunk) ==
    IF st.conn = 0 \/ st.rw = 0 THEN Panic(st, mm)
    ELSE recvStream(st, mm, st.socks[st.conn].rbuf \o chunk)

----------------------------------------------------------------------------
(* recv as src/unnamed/part_000 has it: the body is read into a buffer     *)
(* made for it, body := make([]byte, m.BodyLen); the rest is the same      *)
(* text.                                                                   *)

\* lines 302-310 of part_000
recvBodyOld(st, mm, rest) ==
    IF mm.BodyLen[1] > 0 \/ mm.BodyLen[2] > Len(rest)
    THEN Ret(Received(Unread(st, <<>>), mm, "body"), mm,
             wrapError(StatusNetworkError))
    ELSE recvExtras(Unread(st, Drop(rest, mm.BodyLen[2])), mm,
                    ReadFull(View(Make(mm.BodyLen[2], 0)), rest))

\* lines 277-300 of part_000
recvOld(st, mm, chunk) ==
    IF st.conn = 0 \/ st.rw = 0 THEN Panic(st, mm)
    ELSE IF Len(st.socks[st.conn].rbuf \o chunk) < 24
    THEN Ret(Received(Unread(st, <<>>), mm, "header"), mm,
             wrapError(StatusNetworkError))
    ELSE recvBodyOld(st,
                     ParseHeader(mm, Take(st.socks[st.conn].rbuf \o chunk, 24)),
                     Drop(st.socks[st.conn].rbuf \o chunk, 24))

----------------------------------------------------------------------------
(* The environment of an exchange: which write call fails, and what the    *)
(* server sends in answer before the read deadline.                        *)

\* a response as the server frames it: 24 header bytes, then the body
Frame(op, keyLen, extraLen, status, opaque, cas, body) ==
    <<magicRecv, op, keyLen \div 256, keyLen % 256, extraLen, 0,
      status \div 256, status % 256,
      0, 0, Len(body) \div 256, Len(body) % 256>> \o opaque \o cas \o body

bOpaque123 == <<0, 0, 0, 123>>
bCas999 == <<0, 0, 0, 0, 0, 0, 3, 231>>

Response(op, keyLen, extraLen, status, body) ==
    Frame(op, keyLen, extraLen, status, bOpaque123, bCas999, body)

sPLAIN == <<80, 76, 65, 73, 78>>
sCRAM == <<67, 82, 65, 77>>
sFoo == <<102, 111, 111>>
sBar == <<98, 97, 114>>
sWorld == <<119, 111, 114, 108, 100>>
sUser == <<117>>
sPass == <<112>>
bCafeBabe == <<202, 254, 186, 190>>

RespEmpty(status) == Response(opGet, 0, 0, status, <<>>)
RespValue(val) == Response(opGet, 0, 0, StatusOK, val)
RespGet == Response(opGet, 3, 4, StatusOK, bCafeBabe \o sFoo \o sWorld)
RespStat(k, v) == Response(opStat, Len(k), 0, StatusOK, k \o v)
RespShortKey == Response(opGet, 5, 0, StatusOK, sFoo)
\* what the server may send, before the read deadline, in answer to a
\* request of opcode op: a response, a malformed or truncated one, or
\* nothing
Answers(op) ==
    IF op = opAuthList
    THEN { RespValue(sCRAM \o <<32>> \o sPLAIN), RespValue(sCRAM),
           RespEmpty(StatusUnknownCommand), RespEmpty(StatusAuthRequired),
           <<>> }
    ELSE IF op = opAuthStart
    THEN { RespEmpty(StatusOK), RespEmpty(StatusUnknownCommand),
           RespEmpty(StatusAuthRequired), <<>> }
    ELSE IF op = opStat
    THEN { RespStat(sFoo, sBar), RespEmpty(StatusOK),
           RespEmpty(StatusNotFound), RespShortKey, <<>> }
    ELSE { RespGet, RespEmpty(StatusOK), RespEmpty(StatusNotFound),
           RespShortKey,
           Response(opGet, 0, 2, StatusOK, <<0, 1>> \o sFoo),
           Response(opGet, 0, 4, StatusOK, <<0, 1>>),
           Take(RespGet, 30), <<>> }

\* the call of send that fails: 0 for none, 1 for Flush, k + 1 for the
\* k-th last write before it
WriteFaults == 0..MaxFault

\* strings.Contains
Contains(s, sub) ==
    \E i \in 0..(Len(s) - Len(sub)) : SubSeq(s, i + 1, i + Len(sub)) = sub

----------------------------------------------------------------------------
(* The exchange and the connection.  An operator that depends on the       *)
(* environment yields the set of its possible results.                     *)

\* sendRecv, lines 210-215, r being what recv returned
afterRecv(r) ==
    IF r.panic THEN r
    ELSE IF ~r.err.isNil THEN Ret(resetConn(r.st, r.err), r.m, r.err)
    ELSE Ret(r.st, r.m, NilErr)

\* sendRecv, lines 205-210, s being what send returned
afterSend(s, chunk) ==
    IF s.panic THEN s
    ELSE IF ~s.err.isNil THEN Ret(resetConn(s.st, s.err), s.m, s.err)
    ELSE afterRecv(recv(s.st, s.m, chunk))

\* sendRecv sending the request again after its first send
sendRecvRetry(st, mm, io) ==
    afterSend(send(send(st, mm, io.wf).st, mm, 0), io.chunk)

\* sendRecv under one environment io
sendRecv(st, mm, io) == afterSend(send(st, mm, io.wf), io.chunk)

\* sendRecv under every environment: the server answers, or a write fails
sendRecvAll(st, mm) ==
    { sendRecv(st, mm, io) :
        io \in { [wf |-> 0, chunk |-> c] : c \in Answers(mm.Op) }
                 \cup { [wf |-> f, chunk |-> <<>>] : f \in WriteFaults \ {0} } }

authList(st) == sendRecvAll(st, NewMsg(opAuthList, <<>>, <<>>, <<>>, <<>>))

authPlain(st) ==
    sendRecvAll(st, NewMsg(opAuthStart, <<>>, <<>>, sPLAIN,
                           <<0>> \o st.username \o <<0>> \o st.password))

\* auth starting PLAIN whatever mechanisms the server lists
authAnyMechanism(st) ==
    IF Len(st.username) = 0 /\ Len(st.password) = 0
    THEN { Ret(st, <<>>, NilErr) }
    ELSE UNION { IF l.panic \/ ~l.err.isNil THEN { l } ELSE authPlain(l.st)
                 : l \in authList(st) }

auth(st) ==
    IF Len(st.username) = 0 /\ Len(st.password) = 0
    THEN { Ret(st, <<>>, NilErr) }
    ELSE UNION { IF l.panic \/ ~l.err.isNil THEN { l }
                 ELSE IF Contains(l.m.val, sPLAIN) THEN authPlain(l.st)
                 ELSE { Ret(l.st, l.m, ErrorOf(StatusAuthUnknown)) }
                 : l \in authList(st) }

\* net.DialTimeout: it fails, or returns a new socket that is or is not a
\* *net.TCPConn.  No more than MaxDials sockets are dialed.
DialResults(st) ==
    { "fail" } \cup (IF Len(st.socks) < MaxDials THEN { "tcp", "other" } ELSE {})

\* the trace after connect returned
Connected(st, how) == Emit(st, Event("connect", st.conn, 0, how, 0))

\* connect failing on every error of auth
afterAuthStrict(a) ==
    IF a.panic THEN a
    ELSE IF ~a.err.isNil
    THEN Ret(Connected(closeConn(a.st), "failed"), <<>>, a.err)
    ELSE Ret(Connected(a.st, "ok"), <<>>, NilErr)

\* connect, lines 142-155, a being what auth returned
afterAuth(a) ==
    IF a.panic THEN a
    ELSE IF ~a.err.isNil /\ a.err.Status # StatusUnknownCommand
    THEN Ret(Connected(closeConn(a.st), "failed"), <<>>, a.err)
    ELSE Ret(Connected(a.st, "ok"), <<>>, NilErr)

\* connect, lines 127-139, st having the dialed socket as its conn
dialed(st, isTCP) ==
    IF st.scheme = "tcp" /\ ~isTCP
    THEN { Ret(Connected(st, "failed"), <<>>, ErrorOf(StatusNetworkError)) }
    ELSE { afterAuth(a) : a \in auth([st EXCEPT !.rw = st.conn]) }

connect(st) ==
    UNION { IF d = "fail"
            THEN { Ret(Connected(Emit(st, Event("dial", 0, 0, "failed", 0)),
                                 "failed"),
                       <<>>, wrapError(StatusNetworkError)) }
            ELSE dialed([st EXCEPT
                           !.socks = Append(@, NewSocket),
                           !.conn = Len(st.socks) + 1,
                           !.events = Append(@, Event("dial", Len(st.socks) + 1,
                                                      0, "ok", 0))],
                        d = "tcp")
            : d \in DialResults(st) }

perform(st, mm) ==
    IF st.conn = 0
    THEN UNION { IF c.panic THEN { Panic(c.st, mm) }
                 ELSE IF ~c.err.isNil THEN { Ret(c.st, mm, c.err) }
                 ELSE sendRecvAll(c.st, mm)
                 : c \in connect(st) }
    ELSE sendRecvAll(st, mm)

EmptyStats == [k \in {} |-> <<>>]

RetStats(r, st, stats) ==
    [st |-> st, m |-> r.m, err |-> r.err, panic |-> r.panic, stats |-> stats]

\* the loop of sendRecvStats after n entries; the server sends no more than
\* MaxStats entries before it ends the list or fails
RECURSIVE statsLoop(_, _, _, _)

\* the loop keeping the value a key already has
statsNextKeepFirst(r, stats, n) ==
    IF r.panic THEN { RetStats(r, r.st, stats) }
    ELSE IF ~r.err.isNil THEN { RetStats(r, resetConn(r.st, r.err), stats) }
    ELSE IF r.m.KeyLen = 0 THEN { RetStats(r, r.st, stats) }
    ELSE IF n >= MaxStats THEN {}
    ELSE statsLoop(r.st, r.m,
                   [k \in (DOMAIN stats) \cup {r.m.key} |->
                      IF k \in DOMAIN stats THEN stats[k] ELSE r.m.val],
                   n + 1)

\* lines 229-237, r being what recv returned
statsNext(r, stats, n) ==
    IF r.panic THEN { RetStats(r, r.st, stats) }
    ELSE IF ~r.err.isNil THEN { RetStats(r, resetConn(r.st, r.err), stats) }
    ELSE IF r.m.KeyLen = 0 THEN { RetStats(r, r.st, stats) }
    ELSE IF n >= MaxStats THEN {}
    ELSE statsLoop(r.st, r.m,
                   [k \in (DOMAIN stats) \cup {r.m.key} |->
                      IF k = r.m.key THEN r.m.val ELSE stats[k]],
                   n + 1)

statsLoop(st, mm, stats, n) ==
    UNION { statsNext(recv(st, mm, chunk), stats, n) : chunk \in Answers(opStat) }

\* lines 220-227, s being what send returned
statsSent(s) ==
    IF s.panic THEN { RetStats(s, s.st, EmptyStats) }
    ELSE IF ~s.err.isNil
    THEN { RetStats(s, resetConn(s.st, s.err), EmptyStats) }
    ELSE statsLoop(s.st, s.m, EmptyStats, 0)

sendRecvStats(st, mm) ==
    UNION { statsSent(send(st, mm, wf)) : wf \in WriteFaults }

performStats(st, mm) ==
    IF st.conn = 0
    THEN UNION { IF c.panic \/ ~c.err.isNil
                 THEN { [st |-> c.st, m |-> mm, err |-> c.err,
                         panic |-> c.panic, stats |-> EmptyStats] }
                 ELSE sendRecvStats(c.st, mm)
                 : c \in connect(st) }
    ELSE sendRecvStats(st, mm)

quit(st, mm) ==
    IF st.conn # 0
    THEN { IF r.panic THEN r ELSE Ret(closeConn(r.st), r.m, NilErr)
           : r \in sendRecvAll(st, mm) }
    ELSE { Ret(st, mm, NilErr) }

----------------------------------------------------------------------------
(* The callers of a connection *)

uFlags == Extra(4, <<57005, 48879>>)
uExp == Extra(4, <<0, 3600>>)

MsgGet == NewMsg(opGet, <<>>, <<4>>, sFoo, <<>>)
MsgSet == NewMsg(opSet, <<uFlags, uExp>>, <<>>, sFoo, sBar)
MsgStat == NewMsg(opStat, <<>>, <<>>, <<>>, <<>>)
MsgQuit == NewMsg(opQuit, <<>>, <<>>, <<>>, <<>>)

ReqMsgs == { MsgGet, MsgSet }

\* a response by its parts
Resp(op, status, extras, key, val, opaque, cas) ==
    [ op |-> op, status |-> status, extras |-> extras, key |-> key,
      val |-> val, opaque |-> opaque, cas |-> cas ]

\* what a call is given and returns: the connection's socket and the number
\* of sockets and of requests on that socket before the call, the msg
\* passed, the error returned (or the panic)
Call(op, st, req, r, stats) ==
    [ op |-> op, req |-> req, err |-> r.err, panic |-> r.panic,
      conn0 |-> st.conn, rw0 |-> st.rw, nsocks0 |-> Len(st.socks),
      nout0 |-> IF st.conn = 0 THEN 0 ELSE Len(st.socks[st.conn].out),
      opq0 |-> st.opq, stats |-> stats, fed |-> Resp(0, 0, <<>>, <<>>, <<>>, <<>>, <<>>) ]

\* a call begins with an empty trace
Begin(st) == [st EXCEPT !.events = <<>>, !.bufs = <<>>]

Init ==
    /\ sc \in { newServerConn(s, c[1], c[2]) :
                  s \in { "tcp", "unix" },
                  c \in { <<(<<>>), (<<>>)>>, <<sUser, sPass>> } }
    /\ m = MsgGet
    /\ last = Call("new", sc, MsgGet, Ret(sc, MsgGet, NilErr), EmptyStats)
    /\ ncalls = 0
    /\ arena = <<>>

Perform ==
    /\ ncalls < MaxCalls /\ ~last.panic
    /\ \E mm \in ReqMsgs : \E r \in perform(Begin(sc), mm) :
         /\ sc' = r.st
         /\ m' = r.m
         /\ last' = Call("perform", sc, mm, r, EmptyStats)
    /\ ncalls' = ncalls + 1
    /\ UNCHANGED arena

PerformStats ==
    /\ ncalls < MaxCalls /\ ~last.panic
    /\ \E r \in performStats(Begin(sc), MsgStat) :
         /\ sc' = r.st
         /\ m' = r.m
         /\ last' = Call("performStats", sc, MsgStat, r, r.stats)
    /\ ncalls' = ncalls + 1
    /\ UNCHANGED arena

Quit ==
    /\ ncalls < MaxCalls /\ ~last.panic
    /\ \E r \in quit(Begin(sc), MsgQuit) :
         /\ sc' = r.st
         /\ m' = r.m
         /\ last' = Call("quit", sc, MsgQuit, r, EmptyStats)
    /\ ncalls' = ncalls + 1
    /\ UNCHANGED arena

Next == Perform \/ PerformStats \/ Quit

Spec == Init /\ [][Next]_vars

----------------------------------------------------------------------------
(* A connection that has made many sends already: the calls of Spec on a   *)
(* tcp serverConn with credentials that is disconnected and whose opq is  *)
(* 0, near the carry into the upper half of the uint32, or near its        *)
(* largest value.                                                          *)

OpaqueStarts == { Zero(4), <<0, 65535>>, <<65535, 65534>> }

InitOpaque ==
    /\ sc \in { [newServerConn("tcp", sUser, sPass) EXCEPT !.opq = o] :
                  o \in OpaqueStarts }
    /\ m = MsgGet
    /\ last = Call("new", sc, MsgGet, Ret(sc, MsgGet, NilErr), EmptyStats)
    /\ ncalls = 0
    /\ arena = <<>>

SpecOpaque == InitOpaque /\ [][Next]_vars

----------------------------------------------------------------------------
(* The codec alone, as TestServerConn_Send and TestServerConn_Recv drive   *)
(* it: a serverConn over a mock socket that never fails; a msg is sent, or *)
(* a response is put in the socket's read buffer and received.  The bytes  *)
(* sent can be looped back into the read buffer and received.              *)

SeqsUpTo(S, n) == UNION { [1..k -> S] : k \in 0..n }

u8 == Extra(1, <<7>>)
u16 == Extra(2, <<3600>>)
u32 == Extra(4, <<57005, 48879>>)
u64 == Extra(8, <<258, 772, 1286, 1800>>)

\* a value of a type that is none of uint8, uint16, uint32, uint64
uInt == Extra(0, <<5>>)

\* a msg as an earlier receive left its header
Stale(mm) == ParseHeader(mm, Take(RespGet, 24))

CodecSendMsgs ==
    LET fresh == { NewMsg(opSet, ie, [i \in 1..Len(ie) |-> ie[i].w], k, v) :
                     ie \in SeqsUpTo({u8, u16, u32, u64}, MaxExtras)
                              \cup { [i \in 1..n |-> u64] :
                                       n \in (LongExtras - 1)..(LongExtras + 1) }
                              \cup { <<uInt>>, <<u32, uInt>> },
                     k \in {<<>>, sFoo}, v \in {<<>>, sBar} }
    IN  fresh \cup { Stale(mm) : mm \in fresh }

CodecRecvMsgs ==
    { NewMsg(opGet, <<>>, oe, <<>>, <<>>) : oe \in SeqsUpTo({1, 2, 4, 8}, MaxExtras) }

bOpaque == <<1, 2, 3, 4>>
bCas == <<1, 2, 3, 4, 5, 6, 7, 8>>

FrameOf(fr) ==
    Frame(fr.op, Len(fr.key), Len(fr.extras), fr.status, fr.opaque, fr.cas,
          fr.extras \o fr.key \o fr.val)

\* the serverConn of the tests: conn and rw set over the mock socket
MockConn ==
    [newServerConn("tcp", <<>>, <<>>) EXCEPT
       !.socks = <<NewSocket>>, !.conn = 1, !.rw = 1]

InitCodec ==
    /\ sc = MockConn
    /\ m \in CodecSendMsgs \cup CodecRecvMsgs
    /\ last = Call("new", sc, m, Ret(sc, m, NilErr), EmptyStats)
    /\ ncalls = 0
    /\ arena = <<>>

\* sc.send(m)
CodecSend ==
    /\ last.op = "new"
    /\ LET r == send(Begin(sc), m, 0)
       IN  /\ sc' = r.st
           /\ m' = r.m
           /\ last' = Call("send", sc, m, r, EmptyStats)
    /\ ncalls' = ncalls + 1
    /\ UNCHANGED arena

\* the bytes written are put in the read buffer
CodecLoop ==
    /\ last.op = "send" /\ ~last.panic
    /\ sc' = Unread(sc, sc.socks[1].out[1].bytes)
    /\ last' = [last EXCEPT !.op = "loop"]
    /\ UNCHANGED <<m, ncalls, arena>>

\* a response is put in the read buffer
CodecFeed ==
    /\ last.op = "new"
    /\ \E fr \in { Resp(opGet, st, ex, k, v, o, bCas) :
                    st \in {StatusOK, StatusNotFound},
                    ex \in {<<>>, <<7>>, bCafeBabe, <<14, 16>> \o bCafeBabe, bCas},
                    k \in {<<>>, sFoo}, v \in {<<>>, sWorld},
                    o \in {bOpaque123, bOpaque} } :
         /\ sc' = Unread(sc, FrameOf(fr))
         /\ last' = [last EXCEPT !.op = "fed", !.fed = fr]
    /\ UNCHANGED <<m, ncalls, arena>>

\* sc.recv(m)
CodecRecv ==
    /\ last.op \in {"loop", "fed"}
    /\ LET r == recv(Begin(sc), m, <<>>)
       IN  /\ sc' = r.st
           /\ m' = r.m
           /\ last' = [last EXCEPT !.op = IF last.op = "loop" THEN "looprecv"
                                          ELSE "recv",
                                   !.err = r.err, !.panic = r.panic]
    /\ ncalls' = ncalls + 1
    /\ UNCHANGED arena

NextCodec == CodecSend \/ CodecLoop \/ CodecFeed \/ CodecRecv

SpecCodec == InitCodec /\ [][NextCodec]_vars

----------------------------------------------------------------------------
(* recv alone over the mock socket: what the server sent, whole or cut     *)
(* short or malformed, is put in the read buffer and received.             *)

\* the msgs received into: destinations of every width, and destinations
\* of a type recv does not support (width 0)
RecvMsgs ==
    CodecRecvMsgs
      \cup { NewMsg(opGet, <<>>, oe, <<>>, <<>>) : oe \in {<<0>>, <<4, 0>>} }

InitRecv ==
    /\ sc = MockConn
    /\ m \in RecvMsgs
    /\ last = Call("new", sc, m, Ret(sc, m, NilErr), EmptyStats)
    /\ ncalls = 0
    /\ arena = <<>>

\* the server's bytes are put in the read buffer
RecvFeed ==
    /\ last.op \in {"new", "recv"}
    /\ ncalls < MaxCalls
    /\ \E chunk \in Answers(opGet) :
         /\ sc' = Unread(sc, chunk)
         /\ last' = [last EXCEPT !.op = "fed"]
    /\ UNCHANGED <<m, ncalls, arena>>

\* sc.recv(m)
Recv ==
    /\ last.op = "fed"
    /\ LET r == recv(Begin(sc), m, <<>>)
       IN  /\ sc' = r.st
           /\ m' = r.m
           /\ last' = Call("recv", sc, m, r, EmptyStats)
    /\ ncalls' = ncalls + 1
    /\ UNCHANGED arena

SpecRecv == InitRecv /\ [][RecvFeed \/ Recv]_vars

----------------------------------------------------------------------------
(* A caller that snapshots its msg before an exchange and restores it      *)
(* after: backup(m), send(m), recv(m), restore(m), then the same with      *)
(* another msg, the slot keeping the slices of the snapshots before.       *)

BackupMsgs ==
    { MsgGet, MsgSet, Stale(MsgGet),
      NewMsg(opSet, <<uFlags>>, <<4, 8>>, sFoo, sWorld) }

InitBackup ==
    /\ sc = MockConn
    /\ m = MsgGet
    /\ last = [Call("new", sc, m, Ret(sc, m, NilErr), EmptyStats)
                 EXCEPT !.fed = m]
    /\ ncalls = 0
    /\ arena = <<>>

\* sc.backup(m), for a msg of the caller
Backup ==
    /\ last.op \in {"new", "restore"}
    /\ ncalls < MaxCalls
    /\ \E mm \in BackupMsgs :
         /\ m' = mm
         /\ sc' = [sc EXCEPT !.backupMsg = backupMsg(mm, @)]
         /\ last' = [Call("backup", sc, mm, Ret(sc, mm, NilErr), EmptyStats)
                       EXCEPT !.fed = mm]
    /\ UNCHANGED <<ncalls, arena>>

\* sc.send(m)
BackupSend ==
    /\ last.op = "backup"
    /\ LET r == send(Begin(sc), m, 0)
       IN  /\ sc' = r.st
           /\ m' = r.m
           /\ last' = [last EXCEPT !.op = "send", !.err = r.err,
                                   !.panic = r.panic]
    /\ UNCHANGED <<ncalls, arena>>

\* sc.recv(m), the server having answered
BackupRecv ==
    /\ last.op = "send" /\ ~last.panic
    /\ \E chunk \in Answers(opGet) :
         LET r == recv(Begin(Unread(sc, <<>>)), m, chunk)
         IN  /\ sc' = r.st
             /\ m' = r.m
             /\ last' = [last EXCEPT !.op = "recv", !.err = r.err,
                                     !.panic = r.panic]
    /\ UNCHANGED <<ncalls, arena>>

\* sc.restore(m); last.fed keeps the msg as it was before the call
Restore ==
    /\ last.op = "recv" /\ ~last.panic
    /\ m' = restoreMsg(m, sc.backupMsg)
    /\ last' = [last EXCEPT !.op = "restore", !.fed = m]
    /\ ncalls' = ncalls + 1
    /\ UNCHANGED <<sc, arena>>

SpecBackup == InitBackup /\ [][Backup \/ BackupSend \/ BackupRecv \/ Restore]_vars

----------------------------------------------------------------------------
(* A caller that replays a request: backup(m) and perform(m) on one        *)
(* connection, then restore(m) and perform(m) on another.  sc is the first *)
(* connection; last holds the second one (new, or one that has sent        *)
(* requests before), the request as the caller made it, and what each      *)
(* perform wrote and returned.                                             *)

InitReplay ==
    /\ sc = newServerConn("unix", <<>>, <<>>)
    /\ m \in BackupMsgs
    /\ \E o \in OpaqueStarts :
         last = [op |-> "new", panic |-> FALSE, req |-> m, err |-> NilErr,
                 other |-> [newServerConn("unix", <<>>, <<>>) EXCEPT !.opq = o],
                 first |-> [m |-> m, err |-> NilErr, events |-> <<>>]]
    /\ ncalls = 0
    /\ arena = <<>>

\* sc.backup(m)
ReplayBackup ==
    /\ last.op = "new"
    /\ sc' = [sc EXCEPT !.backupMsg = backupMsg(m, @)]
    /\ last' = [last EXCEPT !.op = "backup"]
    /\ UNCHANGED <<m, ncalls, arena>>

\* sc.perform(m)
ReplayPerform ==
    /\ last.op = "backup"
    /\ \E r \in perform(Begin(sc), m) :
         /\ sc' = r.st
         /\ m' = r.m
         /\ last' = [last EXCEPT
                       !.op = "perform", !.err = r.err, !.panic = r.panic,
                       !.first = [m |-> r.m, err |-> r.err,
                                  events |-> r.st.events]]
    /\ UNCHANGED <<ncalls, arena>>

\* sc.restore(m), the perform having failed
ReplayRestore ==
    /\ last.op = "perform" /\ ~last.panic /\ ~last.err.isNil
    /\ m' = restoreMsg(m, sc.backupMsg)
    /\ last' = [last EXCEPT !.op = "restore"]
    /\ UNCHANGED <<sc, ncalls, arena>>

\* perform(m) on the other connection
ReplayRetry ==
    /\ last.op = "restore"
    /\ \E r \in perform(Begin(last.other), m) :
         /\ m' = r.m
         /\ last' = [last EXCEPT !.op = "retry", !.err = r.err,
                                 !.panic = r.panic, !.other = r.st]
    /\ ncalls' = ncalls + 1
    /\ UNCHANGED <<sc, arena>>

SpecReplay ==
    InitReplay /\ [][ReplayBackup \/ ReplayPerform \/ ReplayRestore \/ ReplayRetry]_vars

----------------------------------------------------------------------------
(* perform over a socket on which the server has sent bytes ahead of the   *)
(* request: a response nobody asked for, one with another opcode, opaque   *)
(* and magic than the request's, or part of one.  last.fed holds what was  *)
(* unread on the socket when the call began and whether the server ever    *)
(* sent bytes ahead.                                                       *)

Pending(st) == IF st.conn = 0 THEN <<>> ELSE st.socks[st.conn].rbuf

\* the connection is new, or has sent as many requests as the opaque of the
\* server's responses tells
InitFrames ==
    /\ sc \in { [newServerConn("unix", <<>>, <<>>) EXCEPT !.opq = o] :
                  o \in { Zero(4), Uint(4, bOpaque123) } }
    /\ m = MsgGet
    /\ last = [Call("new", sc, m, Ret(sc, m, NilErr), EmptyStats)
                 EXCEPT !.fed = [rbuf |-> <<>>, ahead |-> FALSE]]
    /\ ncalls = 0
    /\ arena = <<>>

\* the server sends bytes that no request is waiting for: a well-formed
\* response of status 0 to a stat request with the magic of a request, a
\* response to a get request, a status error, the start of a response, or
\* a response with fewer extras than a get request takes
FramesFeed ==
    /\ sc.conn # 0 /\ sc.rw # 0 /\ ~last.panic
    /\ Pending(sc) = <<>>
    /\ ncalls < MaxCalls
    /\ \E chunk \in
           { [Frame(opStat, 3, 4, StatusOK, <<255, 255, 255, 254>>, bCas999,
                    bCafeBabe \o sBar \o sWorld) EXCEPT ![1] = magicSend],
             RespGet, RespEmpty(StatusNotFound), Take(RespGet, 10),
             Response(opGet, 0, 2, StatusOK, <<0, 1>> \o sFoo) } :
         sc' = Unread(sc, chunk)
    /\ last' = [last EXCEPT !.op = "fed", !.fed.ahead = TRUE]
    /\ UNCHANGED <<m, ncalls, arena>>

\* sc.perform(m)
FramesPerform ==
    /\ ncalls < MaxCalls /\ ~last.panic
    /\ \E mm \in ReqMsgs : \E r \in perform(Begin(sc), mm) :
         /\ sc' = r.st
         /\ m' = r.m
         /\ last' = [Call("perform", sc, mm, r, EmptyStats)
                       EXCEPT !.fed = [rbuf |-> Pending(sc),
                                       ahead |-> last.fed.ahead]]
    /\ ncalls' = ncalls + 1
    /\ UNCHANGED arena

SpecFrames == InitFrames /\ [][FramesFeed \/ FramesPerform]_vars

----------------------------------------------------------------------------
(* The two recv side by side: the server's bytes are put in the read       *)
(* buffer, the pool holds a buffer with the bytes of an earlier body, and  *)
(* both recv are run from that state.  The connection goes on with the     *)
(* result of the recv of server_conn.go; last.fed holds the result of the  *)
(* other.                                                                  *)

InitEquiv ==
    /\ sc = MockConn
    /\ m \in RecvMsgs
    /\ last = [Call("new", sc, m, Ret(sc, m, NilErr), EmptyStats)
                 EXCEPT !.fed = Ret(sc, m, NilErr)]
    /\ ncalls = 0
    /\ arena = <<>>

\* the server's bytes arrive; the buffer the pool will hand out holds the
\* body of an earlier response, longer or shorter than the one to come
EquivFeed ==
    /\ last.op \in {"new", "recv"}
    /\ ncalls < MaxCalls
    /\ \E chunk \in Answers(opGet),
          stale \in { <<>>, Take(sWorld, 2), sPLAIN \o sWorld \o sCRAM \o sPLAIN } :
         sc' = [Unread(sc, chunk) EXCEPT !.stale = stale]
    /\ last' = [last EXCEPT !.op = "fed"]
    /\ UNCHANGED <<m, ncalls, arena>>

\* sc.recv(m), by both
EquivRecv ==
    /\ last.op = "fed"
    /\ LET r == recv(Begin(sc), m, <<>>)
       IN  /\ sc' = r.st
           /\ m' = r.m
           /\ last' = [Call("recv", sc, m, r, EmptyStats)
                         EXCEPT !.fed = recvOld(Begin(sc), m, <<>>)]
    /\ ncalls' = ncalls + 1
    /\ UNCHANGED arena

SpecEquiv == InitEquiv /\ [][EquivFeed \/ EquivRecv]_vars

----------------------------------------------------------------------------
(* performStats over a connection whose server has sent a list of stats:   *)
(* entries, the message that ends the list, and what the server sends      *)
(* after it.                                                               *)

StatEntry(k, v) == [k |-> k, v |-> v]

RECURSIVE StatStream(_)
StatStream(es) ==
    IF es = <<>> THEN <<>>
    ELSE RespStat(Head(es).k, Head(es).v) \o StatStream(Tail(es))

InitStats ==
    /\ \E es \in SeqsUpTo({ StatEntry(sFoo, sBar), StatEntry(sFoo, sWorld),
                            StatEntry(sBar, <<>>) }, MaxStats),
          end \in { RespEmpty(StatusOK), Response(opStat, 0, 0, StatusOK, sBar) },
          trailer \in { <<>>, RespStat(sWorld, sFoo) } :
         /\ sc = Unread(MockConn, StatStream(es) \o end \o trailer)
         /\ last = [Call("new", sc, MsgStat, Ret(sc, MsgStat, NilErr), EmptyStats)
                      EXCEPT !.fed = [entries |-> es, end |-> end,
                                      trailer |-> trailer]]
    /\ m = MsgStat
    /\ ncalls = 0
    /\ arena = <<>>

\* sc.performStats(m)
StatsCall ==
    /\ last.op = "new"
    /\ \E r \in performStats(Begin(sc), m) :
         /\ sc' = r.st
         /\ m' = r.m
         /\ last' = [Call("performStats", sc, m, r, r.stats)
                       EXCEPT !.fed = last.fed]
    /\ ncalls' = ncalls + 1
    /\ UNCHANGED arena

SpecStats == InitStats /\ [][StatsCall]_vars

----------------------------------------------------------------------------
(* Callers of one connection running perform concurrently.  The lock of    *)
(* the connection is held by its callers, in code that is not in           *)
(* server_conn.go: a caller takes it before perform and gives it back      *)
(* after.  perform is taken in its steps: connect and send, then recv.     *)
(* The server answers a request sent with one response that carries the    *)
(* opaque of the request, or not at all.  m is the msg of each caller; last *)
(* holds the lock, where each caller is, the caller that took the last     *)
(* step and the opaque each caller's send gave its request.                *)

Callers == 1..MaxCallers

\* a lock that lets every caller in
TryLockOpen(holder, c) == c

\* Lock of the mutex by caller c: the holder after it (0 for none)
TryLock(holder, c) == IF holder = 0 THEN c ELSE holder

\* the response of the server to the request mm sent
Echo(mm, status) ==
    Frame(mm.Op, 0, 0, status, PutUint(4, mm.Opaque), bCas999, <<>>)

InitLock ==
    /\ sc = newServerConn("unix", <<>>, <<>>)
    /\ m \in [Callers -> ReqMsgs]
    /\ last = [op |-> "new", by |-> 0, lock |-> 0, panic |-> FALSE,
               pc |-> [c \in Callers |-> "idle"],
               sent |-> [c \in Callers |-> <<>>],
               err |-> [c \in Callers |-> NilErr]]
    /\ ncalls = 0
    /\ arena = <<>>

\* caller c takes the lock
LockEnter(c) ==
    /\ last.pc[c] = "idle" /\ ~last.panic
    /\ TryLock(last.lock, c) = c
    /\ last' = [last EXCEPT !.op = "enter", !.by = c, !.lock = c,
                            !.pc[c] = "locked"]
    /\ UNCHANGED <<sc, m, ncalls, arena>>

\* what LockSend leaves when perform returns r before recv
LockReturn(c, r) ==
    /\ sc' = r.st
    /\ m' = [m EXCEPT ![c] = r.m]
    /\ last' = [last EXCEPT !.op = "send", !.by = c, !.panic = r.panic,
                            !.pc[c] = "returning", !.err[c] = r.err]

\* perform of caller c up to the end of send: connect when there is no
\* socket, then send; the server may answer
LockSend(c) ==
    /\ last.pc[c] = "locked" /\ ~last.panic
    /\ \E cn \in (IF sc.conn = 0 THEN connect(sc) ELSE { Ret(sc, <<>>, NilErr) }) :
         IF cn.panic \/ ~cn.err.isNil
         THEN LockReturn(c, [cn EXCEPT !.m = m[c]])
         ELSE \E wf \in WriteFaults :
                LET s == send(cn.st, m[c], wf)
                IN  IF s.panic \/ ~s.err.isNil
                    THEN LockReturn(c, IF s.panic THEN s
                                       ELSE Ret(resetConn(s.st, s.err), s.m, s.err))
                    ELSE \E answer \in { <<>>, Echo(s.m, StatusOK),
                                          Echo(s.m, StatusNotFound) } :
                           /\ sc' = Unread(s.st, s.st.socks[s.st.conn].rbuf \o answer)
                           /\ m' = [m EXCEPT ![c] = s.m]
                           /\ last' = [last EXCEPT !.op = "send", !.by = c,
                                                   !.pc[c] = "sent",
                                                   !.sent[c] = s.m.Opaque]
    /\ ncalls' = ncalls + 1
    /\ UNCHANGED arena

\* perform of caller c from recv on
LockRecv(c) ==
    /\ last.pc[c] = "sent" /\ ~last.panic
    /\ LET r == afterRecv(recv(sc, m[c], <<>>))
       IN  /\ sc' = r.st
           /\ m' = [m EXCEPT ![c] = r.m]
           /\ last' = [last EXCEPT !.op = "recv", !.by = c, !.panic = r.panic,
                                   !.pc[c] = "returning", !.err[c] = r.err]
    /\ UNCHANGED <<ncalls, arena>>

\* perform has returned: caller c gives the lock back
LockLeave(c) ==
    /\ last.pc[c] = "returning" /\ ~last.panic
    /\ last' = [last EXCEPT !.op = "leave", !.by = c, !.lock = 0,
                            !.pc[c] = "done"]
    /\ UNCHANGED <<sc, m, ncalls, arena>>

NextLock ==
    \E c \in Callers : LockEnter(c) \/ LockSend(c) \/ LockRecv(c) \/ LockLeave(c)

SpecLock == InitLock /\ [][NextLock]_vars

----------------------------------------------------------------------------
(* Connections running recv concurrently over the one arena.  recv is      *)
(* taken in its steps: the header and getBodyBuffer, io.ReadFull into the  *)
(* buffer, the decoding of the buffer into the msg, putBodyBuffer.  sc and *)
(* m are the connection and the msg of each caller; last holds where each  *)
(* recv is, the buffer it holds, what each buffer of the arena contains    *)
(* and the response each server has sent.                                  *)

InitShare ==
    /\ \E fed \in [Callers ->
                   { Resp(opGet, StatusOK, bCafeBabe, sFoo, sWorld, bOpaque, bCas),
                     Resp(opGet, StatusOK, <<0, 0, 14, 16>>, sBar, sFoo,
                          bOpaque123, bCas) }] :
         /\ sc = [c \in Callers |-> Unread(MockConn, FrameOf(fed[c]))]
         /\ last = [op |-> "new", panic |-> FALSE, fed |-> fed,
                    pc |-> [c \in Callers |-> "idle"],
                    buf |-> [c \in Callers |-> 0],
                    data |-> [id \in 1..MaxBufs |-> <<>>]]
    /\ m = [c \in Callers |-> MsgGet]
    /\ ncalls = 0
    /\ arena = <<>>

\* recv of connection c, lines 318-336: the header is read and parsed and
\* the body buffer is got
ShareGet(c) ==
    /\ last.pc[c] = "idle"
    /\ LET rbuf == sc[c].socks[1].rbuf
           mm == ParseHeader(m[c], Take(rbuf, 24))
       IN  \E g \in getBodyBuffer(arena, mm.BodyLen[2]) :
             /\ arena' = g.arena
             /\ sc' = [sc EXCEPT ![c] = Unread(gotBody(@, mm), Drop(rbuf, 24))]
             /\ m' = [m EXCEPT ![c] = mm]
             /\ last' = [last EXCEPT !.op = "get", !.pc[c] = "got",
                                     !.buf[c] = g.id, !.panic = g.panic]
    /\ UNCHANGED ncalls

\* line 338: io.ReadFull(sc.rw, body)
ShareFill(c) ==
    /\ last.pc[c] = "got" /\ ~last.panic
    /\ LET id == last.buf[c]
           size == arena[id].len
           rbuf == sc[c].socks[1].rbuf
       IN  /\ sc' = [sc EXCEPT ![c] = Unread(@, Drop(rbuf, size))]
           /\ last' = [last EXCEPT
                         !.op = "fill", !.pc[c] = "filled",
                         !.data[id] = ReadFull(Pooled(@, size), rbuf)
                                        \o Drop(@, size)]
    /\ UNCHANGED <<m, ncalls, arena>>

\* lines 342-399: extras, key and value are taken out of the buffer
ShareDecode(c) ==
    /\ last.pc[c] = "filled" /\ ~last.panic
    /\ LET id == last.buf[c]
           r == recvExtras(sc[c], m[c], Take(last.data[id], arena[id].len))
       IN  /\ sc' = [sc EXCEPT ![c] = r.st]
           /\ m' = [m EXCEPT ![c] = r.m]
           /\ last' = [last EXCEPT !.op = "decode", !.pc[c] = "decoded"]
    /\ UNCHANGED <<ncalls, arena>>

\* the deferred putBodyBuffer(body) as recv returns
SharePut(c) ==
    /\ last.pc[c] = "decoded" /\ ~last.panic
    /\ arena' = putBodyBuffer(arena, last.buf[c])
    /\ last' = [last EXCEPT !.op = "put", !.pc[c] = "done", !.buf[c] = 0]
    /\ ncalls' = ncalls + 1
    /\ UNCHANGED <<sc, m>>

NextShare ==
    \E c \in Callers : ShareGet(c) \/ ShareFill(c) \/ ShareDecode(c) \/ SharePut(c)

SpecShare == InitShare /\ [][NextShare]_vars

----------------------------------------------------------------------------
(* The arena alone: buffers are acquired, released and dropped by the      *)
(* pools in any order.                                                     *)

\* a call of the arena: what was asked, the buffer concerned, where it was
\* before the call, and whether the call panicked
ArenaCall(op, size, id, from, panic) ==
    [op |-> op, size |-> size, id |-> id, from |-> from, panic |-> panic]

InitArena ==
    /\ sc = MockConn
    /\ m = MsgGet
    /\ last = ArenaCall("new", 0, 0, "", FALSE)
    /\ ncalls = 0
    /\ arena = <<>>

\* getBodyBuffer(size)
Acquire ==
    /\ ~last.panic
    /\ \E size \in { 0, 1, smallSize, smallSize + 1, mediumSize,
                      mediumSize + 1, largeSize, largeSize + 1 } :
       \E g \in getBodyBuffer(arena, size) :
         /\ arena' = g.arena
         /\ last' = ArenaCall("acquire", size, g.id,
                              IF g.id = 0 \/ g.id > Len(arena) THEN "new"
                              ELSE arena[g.id].at,
                              g.panic)
    /\ UNCHANGED <<sc, m, ncalls>>

\* putBodyBuffer(buf) of a buffer handed out
Release ==
    /\ ~last.panic
    /\ \E id \in 1..Len(arena) :
         /\ arena[id].at = "held"
         /\ arena' = putBodyBuffer(arena, id)
         /\ last' = ArenaCall("release", arena[id].len, id, "held", FALSE)
    /\ UNCHANGED <<sc, m, ncalls>>

\* sync.Pool drops a buffer it holds, as it may at any time
Collect ==
    /\ ~last.panic
    /\ \E id \in 1..Len(arena) :
         /\ arena[id].at \in {"small", "medium", "large"}
         /\ arena' = [arena EXCEPT ![id].at = "dropped"]
         /\ last' = ArenaCall("collect", 0, id, arena[id].at, FALSE)
    /\ UNCHANGED <<sc, m, ncalls>>

SpecArena == InitArena /\ [][Acquire \/ Release \/ Collect]_vars

----------------------------------------------------------------------------
(* What the trace of the last call shows *)

IsNet(err) == ~err.isNil /\ err.Status = StatusNetworkError

Returned(op) == last.op = op /\ ~last.panic

HasCreds(st) == Len(st.username) > 0 \/ Len(st.password) > 0

AuthOps == {opAuthList, opAuthStart}

\* the events of trace ev that are calls of net.DialTimeout, calls of send,
\* calls of send for the request req
DialsIn(ev) == { i \in 1..Len(ev) : ev[i].e = "dial" }

SendsIn(ev) == { i \in 1..Len(ev) : ev[i].e = "send" }

ReqSendsIn(ev, req) == { i \in SendsIn(ev) : ev[i].op = req.Op }

\* send or recv failed at event i with a network error
IOFailedAt(ev, i) ==
    \/ ev[i].e = "send" /\ ev[i].how = "failed"
    \/ ev[i].e = "recv" /\ ev[i].how \in {"header", "body", "extras", "key"}

\* event i is a response decoded with this status, to a request with an
\* opcode in ops
AnsweredAt(ev, i, ops, status) ==
    /\ i > 1 /\ ev[i].e = "recv" /\ ev[i].how = "decoded"
    /\ ev[i].status = status
    /\ ev[i - 1].e = "send" /\ ev[i - 1].op \in ops

ConnectFailed(ev) == \E i \in 1..Len(ev) : ev[i].e = "connect" /\ ev[i].how = "failed"

ConnectOK(ev) == \E i \in 1..Len(ev) : ev[i].e = "connect" /\ ev[i].how = "ok"

----------------------------------------------------------------------------
(* C1: whenever perform returns a network error raised by send or recv,    *)
(* conn and rw are nil and the socket is closed on return, and the next    *)
(* perform dials a new socket before it sends anything.                    *)

C1_Failed ==
    /\ Returned("perform") /\ IsNet(last.err)
    /\ \E i \in 1..Len(sc.events) : IOFailedAt(sc.events, i)

C1_Disconnected ==
    C1_Failed =>
      /\ sc.conn = 0 /\ sc.rw = 0
      /\ \A i \in 1..Len(sc.events) :
           IOFailedAt(sc.events, i) => ~sc.socks[sc.events[i].sock].open

C1_Redials ==
    (C1_Failed /\ last'.op = "perform" /\ ncalls' = ncalls + 1) =>
      /\ sc'.events[1].e = "dial"
      /\ \A i \in SendsIn(sc'.events) :
           /\ sc'.events[i].sock > Len(sc.socks)
           /\ sc'.events[1].how = "ok" /\ sc'.events[1].sock = sc'.events[i].sock

C1_NetworkErrorDisconnects == [](C1_Disconnected) /\ [][C1_Redials]_vars

\* a second perform has dialed socket 2 and sent on it, after the first
\* perform sent its request on socket 1 and closed it
C1_Witness ==
    /\ ncalls = 2 /\ Returned("perform") /\ Len(sc.socks) = 2
    /\ ~sc.socks[1].open /\ sc.socks[1].closes = 1
    /\ Len(sc.socks[1].out) > 0
    /\ sc.socks[1].out[Len(sc.socks[1].out)].op \in {opGet, opSet}
    /\ \E i \in SendsIn(sc.events) : sc.events[i].sock = 2
----------------------------------------------------------------------------
(* C2: whenever connect fails, perform returns that error, the caller's    *)
(* request is never written, conn and rw are nil and every socket dialed   *)
(* by the call is closed.                                                  *)

C2_ConnectFailed == Returned("perform") /\ ConnectFailed(sc.events)

C2_FailedConnectDisconnects ==
    C2_ConnectFailed =>
      /\ ~last.err.isNil
      /\ ReqSendsIn(sc.events, last.req) = {}
      /\ sc.conn = 0 /\ sc.rw = 0
      /\ \A i \in DialsIn(sc.events) :
           sc.events[i].how = "ok" => ~sc.socks[sc.events[i].sock].open

----------------------------------------------------------------------------
(* C3: when the response to the caller's request is decoded with a status  *)
(* other than 0, perform returns an error with that status, the request    *)
(* was sent once, and nothing is dialed, sent or closed because of it.     *)

\* the last event of the call is the response to the caller's request,
\* decoded with a status other than 0
C3_StatusAt(ev, i) ==
    /\ AnsweredAt(ev, i, {last.req.Op}, ev[i].status)
    /\ ev[i].status # StatusOK
    /\ ~ConnectFailed(ev)

C3_StatusErrorReturned ==
    \A i \in 1..Len(sc.events) :
      (Returned("perform") /\ C3_StatusAt(sc.events, i)) =>
        /\ last.err = ErrorOf(sc.events[i].status)
        /\ last.err.Status # StatusNetworkError
        /\ Cardinality(ReqSendsIn(sc.events, last.req)) = 1
        /\ i = Len(sc.events)
        /\ \A j \in DialsIn(sc.events) : j = 1 /\ last.conn0 = 0
        /\ sc.conn = sc.events[i].sock /\ sc.rw = sc.conn
        /\ sc.socks[sc.conn].open

C3_Witness ==
    /\ Returned("perform") /\ last.err = ErrorOf(StatusNotFound)
    /\ sc.conn # 0
    /\ C3_StatusAt(sc.events, Len(sc.events))

----------------------------------------------------------------------------
(* C4: one call of perform or performStats dials at most once and sends    *)
(* the caller's request at most once, and after a network error of send or *)
(* recv it dials, sends and receives nothing more.                         *)

C4_NoRetry ==
    last.op \in {"perform", "performStats"} =>
      /\ Cardinality(DialsIn(sc.events)) <= 1
      /\ Cardinality(ReqSendsIn(sc.events, last.req)) <= 1
      /\ \A i \in 1..Len(sc.events) :
           IOFailedAt(sc.events, i) =>
             \A j \in (i + 1)..Len(sc.events) :
               sc.events[j].e \notin {"dial", "send", "recv"}

\* perform or performStats dialed, sent the caller's request and returned a
\* network error
C4_Witness ==
    /\ last.op \in {"perform", "performStats"} /\ IsNet(last.err)
    /\ DialsIn(sc.events) # {}
    /\ ReqSendsIn(sc.events, last.req) # {}
    /\ \E i \in 1..Len(sc.events) : IOFailedAt(sc.events, i)

----------------------------------------------------------------------------
(* C5: with credentials, an auth request answered with unknown-command     *)
(* lets connect succeed: the socket stays open and perform sends the       *)
(* caller's request on it.  An auth request answered with another status   *)
(* than 0, a mechanism list without PLAIN and a network error make connect *)
(* fail.                                                                   *)

C5_NoAuthSupport(ev) ==
    \E i \in 1..Len(ev) : AnsweredAt(ev, i, AuthOps, StatusUnknownCommand)

C5_AuthFailure(ev) ==
    \E i \in 1..Len(ev) :
      \/ /\ ev[i].e = "recv" /\ ev[i].how = "decoded"
         /\ i > 1 /\ ev[i - 1].op \in AuthOps
         /\ ev[i].status \notin {StatusOK, StatusUnknownCommand}
      \/ /\ AnsweredAt(ev, i, {opAuthList}, StatusOK)
         /\ ~Contains(ev[i].val, sPLAIN)
      \/ /\ IOFailedAt(ev, i)
         /\ ev[i].op \in AuthOps \/ (i > 1 /\ ev[i - 1].op \in AuthOps)

C5_UnknownCommandIsNoFailure ==
    (last.op = "perform" /\ HasCreds(sc)) =>
      /\ C5_NoAuthSupport(sc.events) =>
           \E i \in 1..Len(sc.events) :
             /\ AnsweredAt(sc.events, i, AuthOps, StatusUnknownCommand)
             /\ sc.events[i + 1] = Event("connect", sc.events[i].sock, 0, "ok", 0)
             /\ sc.events[i + 2].e = "send"
             /\ sc.events[i + 2].op = last.req.Op
             /\ sc.events[i + 2].sock = sc.events[i].sock
             /\ \A j \in 1..(i + 2) : sc.events[j].e # "close"
      /\ C5_AuthFailure(sc.events) =>
           /\ ConnectFailed(sc.events) /\ ~last.err.isNil
           /\ ReqSendsIn(sc.events, last.req) = {}
           /\ sc.conn = 0

\* auth-start was answered with unknown-command and perform succeeded
C5_Witness ==
    /\ Returned("perform") /\ HasCreds(sc) /\ last.err.isNil
    /\ \E i \in 1..Len(sc.events) :
         AnsweredAt(sc.events, i, {opAuthStart}, StatusUnknownCommand)
----------------------------------------------------------------------------
(* C6: with credentials, the first request written on a socket is          *)
(* auth-list; auth-start, with key "PLAIN" and value NUL username NUL      *)
(* password, is written once if the auth-list response has status 0 and a  *)
(* value containing "PLAIN", and not at all otherwise; the caller's        *)
(* request is written after them.  Without credentials no auth request is  *)
(* written.                                                                *)

\* the requests of opcode op handed to the writer of socket s
C6_Written(s, op) == { j \in 1..Len(s.out) : s.out[j].op = op }

C6_PlainOffered(ev) ==
    \E i \in 1..Len(ev) :
      AnsweredAt(ev, i, {opAuthList}, StatusOK) /\ Contains(ev[i].val, sPLAIN)

C6_AuthStartFrame(bytes) ==
    /\ SubSeq(bytes, 1, 5) = <<magicSend, opAuthStart, 0, 5, 0>>
    /\ Drop(bytes, 24) = sPLAIN \o <<0>> \o sc.username \o <<0>> \o sc.password

C6_OnSocket(s) ==
    /\ Len(s.out) > 0 => s.out[1].op = opAuthList
    /\ Cardinality(C6_Written(s, opAuthList)) <= 1
    /\ Cardinality(C6_Written(s, opAuthStart)) <= 1
    /\ \A j \in C6_Written(s, opAuthStart) :
         /\ j = 2
         /\ s.out[j].ok => C6_AuthStartFrame(s.out[j].bytes)
    /\ \A j \in 1..Len(s.out) :
         s.out[j].op \notin AuthOps =>
           \A k \in (j + 1)..Len(s.out) : s.out[k].op \notin AuthOps

C6_AuthOrder ==
    /\ HasCreds(sc) =>
         /\ \A k \in 1..Len(sc.socks) : C6_OnSocket(sc.socks[k])
         /\ DialsIn(sc.events) # {} =>
              (C6_PlainOffered(sc.events)
                 <=> \E i \in SendsIn(sc.events) : sc.events[i].op = opAuthStart)
    /\ ~HasCreds(sc) =>
         \A k \in 1..Len(sc.socks) :
           \A j \in 1..Len(sc.socks[k].out) : sc.socks[k].out[j].op \notin AuthOps

\* auth-list, auth-start and the caller's request were written, in this
\* order, on the socket the call dialed
C6_Witness ==
    /\ Returned("perform") /\ HasCreds(sc) /\ sc.conn # 0
    /\ C6_PlainOffered(sc.events)
    /\ Len(sc.socks[sc.conn].out) = 3
    /\ sc.socks[sc.conn].out[2].op = opAuthStart
    /\ sc.socks[sc.conn].out[2].ok
    /\ sc.socks[sc.conn].out[3].op = last.req.Op
----------------------------------------------------------------------------
(* Big-endian layout, stated from the value to the bytes *)

\* the first w bytes of b are the big-endian bytes of the value v
IsBigEndian(v, w, b) ==
    /\ Len(b) >= w
    /\ IF w = 1 THEN v = <<b[1]>>
       ELSE /\ Len(v) * 2 = w
            /\ \A j \in 1..Len(v) :
                 /\ v[j] \div 256 = b[2 * j - 1]
                 /\ v[j] % 256 = b[2 * j]

\* the sum of the first n of the widths ws
RECURSIVE WidthsBefore(_, _)
WidthsBefore(ws, n) == IF n = 0 THEN 0 ELSE WidthsBefore(ws, n - 1) + ws[n]

WidthsOf(extras) == [i \in 1..Len(extras) |-> extras[i].w]

\* send returned and these are the bytes it wrote
SendReturned == last.op = "send" /\ ~last.panic

Sent == sc.socks[1].out[1].bytes

----------------------------------------------------------------------------
(* C7: send writes 24 + extrasLength + len(key) + len(value) bytes: the    *)
(* header with the request magic, the opcode, keyLength at bytes 2-3,      *)
(* extrasLength at byte 4, bodyLength at 8-11, opaque at 12-15 and cas at  *)
(* 16-23, then each element of extrasIn in its order and width, the key    *)
(* and the value; bodyLength is extrasLength + keyLength + len(value).     *)

C7_SendLayout ==
    SendReturned =>
      LET req == last.req
          n == Len(req.iextras)
          ws == WidthsOf(req.iextras)
      IN  /\ last.err.isNil
          /\ Len(Sent) = 24 + Sent[5] + Len(req.key) + Len(req.val)
          /\ Sent[1] = magicSend /\ m.Magic = magicSend
          /\ Sent[2] = req.Op
          /\ IsBigEndian(<<Len(req.key)>>, 2, Drop(Sent, 2))
          /\ Sent[5] = m.ExtraLen
          /\ IsBigEndian(<<0, Sent[5] + Len(req.key) + Len(req.val)>>, 4,
                         Drop(Sent, 8))
          /\ IsBigEndian(last.opq0, 4, Drop(Sent, 12))
          /\ IsBigEndian(req.CAS, 8, Drop(Sent, 16))
          /\ \A i \in 1..n :
               IsBigEndian(req.iextras[i].v, ws[i],
                           Drop(Sent, 24 + WidthsBefore(ws, i - 1)))
          /\ Drop(Sent, Len(Sent) - Len(req.key) - Len(req.val))
               = req.key \o req.val

----------------------------------------------------------------------------
(* C8: recv of a response with status 0, whose body is extrasLength bytes  *)
(* of extras that hold a value for every destination of extrasOut (each a  *)
(* pointer to a uint8, uint16, uint32 or uint64), then                     *)
(* the key, then the value, returns no error; the key is the keyLength     *)
(* bytes after the extras, the value what remains, destination i holds the *)
(* big-endian value of its width read after the destinations before it,    *)
(* and opcode, status, bodyLength, opaque and cas are the frame's.         *)

C8_Fed ==
    /\ last.op = "recv" /\ ~last.panic
    /\ last.fed.status = StatusOK
    /\ \A i \in 1..Len(m.oextras) : m.oextras[i] \in {1, 2, 4, 8}
    /\ WidthsBefore(m.oextras, Len(m.oextras)) <= Len(last.fed.extras)

C8_RecvDecodes ==
    C8_Fed =>
      LET fr == last.fed
      IN  /\ last.err.isNil
          /\ m.key = fr.key
          /\ m.val = fr.val
          /\ \A i \in 1..Len(m.oextras) :
               IsBigEndian(m.dest[i], m.oextras[i],
                           Drop(fr.extras, WidthsBefore(m.oextras, i - 1)))
          /\ m.Op = fr.op /\ m.ResvOrStatus = fr.status
          /\ m.KeyLen = Len(fr.key) /\ m.ExtraLen = Len(fr.extras)
          /\ m.BodyLen = <<0, Len(fr.extras) + Len(fr.key) + Len(fr.val)>>
          /\ IsBigEndian(m.Opaque, 4, fr.opaque)
          /\ IsBigEndian(m.CAS, 8, fr.cas)

\* the response of TestServerConn_Recv, with two destinations
C8_Witness ==
    /\ C8_Fed
    /\ last.fed.extras = <<14, 16>> \o bCafeBabe
    /\ last.fed.key = sFoo /\ last.fed.val = sWorld
    /\ m.oextras = <<2, 4>>
    /\ m.dest = << <<3600>>, <<51966, 47806>> >>
    /\ m.key = sFoo /\ m.val = sWorld

----------------------------------------------------------------------------
(* C9: recv of the bytes send wrote, with destinations of the widths of    *)
(* the extras sent, in their order, returns no error and yields the key,   *)
(* the value and each extras value of the msg sent.                        *)

C9_RoundTrip ==
    (/\ last.op = "looprecv" /\ ~last.panic
     /\ last.req.oextras = WidthsOf(last.req.iextras)) =>
      /\ last.err.isNil
      /\ m.key = last.req.key
      /\ m.val = last.req.val
      /\ Len(m.dest) = Len(last.req.iextras)
      /\ \A i \in 1..Len(m.dest) : m.dest[i] = last.req.iextras[i].v

----------------------------------------------------------------------------
(* C10: the extrasLength send writes in the header is the sum of the       *)
(* widths of the elements of extrasIn, and the number of bytes written     *)
(* between the header and the key.                                         *)

C10_ExtrasLength ==
    SendReturned =>
      LET sum == WidthsBefore(WidthsOf(last.req.iextras), Len(last.req.iextras))
      IN  /\ Sent[5] = sum
          /\ Len(Sent) - 24 - Len(last.req.key) - Len(last.req.val) = sum
----------------------------------------------------------------------------
(* C11: recv of a response with status 0 returns no error only if          *)
(* extrasLength is at least the sum of the widths of the destinations of   *)
(* extrasOut, and then every destination holds a value of the response;    *)
(* this includes extrasLength 0 with destinations.                         *)

C11_ExtrasSufficient ==
    (/\ last.op = "recv" /\ ~last.panic
     /\ last.fed.status = StatusOK
     /\ last.err.isNil) =>
      /\ WidthsBefore(m.oextras, Len(m.oextras)) <= Len(last.fed.extras)
      /\ \A i \in 1..Len(m.oextras) :
           IsBigEndian(m.dest[i], m.oextras[i],
                       Drop(last.fed.extras, WidthsBefore(m.oextras, i - 1)))
----------------------------------------------------------------------------
(* C12: when the body of the response to the request of perform was read   *)
(* and is shorter than extrasLength, or its extras are too short for a     *)
(* destination, or fewer bytes follow the extras than keyLength, perform   *)
(* returns a network error with the socket closed and conn and rw nil, and *)
(* the next call receives nothing from that socket.                        *)

\* the header recv left in mm describes a frame that cannot be decoded
\* into the destinations of mm
C12_Malformed(mm) ==
    LET body == mm.BodyLen[2]
        extras == mm.ResvOrStatus = 0 /\ mm.ExtraLen > 0
        short == extras /\ body < mm.ExtraLen
        few == /\ extras /\ ~short
               /\ WidthsBefore(mm.oextras, Len(mm.oextras)) > mm.ExtraLen
        nokey == /\ ~short /\ ~few
                 /\ body - (IF extras THEN mm.ExtraLen ELSE 0) < mm.KeyLen
    IN  short \/ few \/ nokey

\* event i is recv of perform's request having read the header and the body
C12_ReadAt(ev, i) ==
    /\ i > 1 /\ ev[i].e = "recv" /\ ev[i].how \notin {"header", "body"}
    /\ ev[i - 1].e = "send" /\ ev[i - 1].op = last.req.Op
    /\ ~ConnectFailed(ev)

C12_TornDown ==
    \A i \in 1..Len(sc.events) :
      (Returned("perform") /\ C12_ReadAt(sc.events, i) /\ C12_Malformed(m)) =>
        /\ IsNet(last.err)
        /\ sc.conn = 0 /\ sc.rw = 0
        /\ ~sc.socks[sc.events[i].sock].open
        /\ sc.socks[sc.events[i].sock].closes = 1

C12_StreamAbandoned ==
    \A i \in 1..Len(sc.events) :
      (Returned("perform") /\ C12_ReadAt(sc.events, i) /\ C12_Malformed(m)) =>
        \A j \in 1..Len(sc'.events) :
          sc'.events[j].e \in {"send", "recv"} =>
            sc'.events[j].sock # sc.events[i].sock

C12_MalformedTearsDown == [](C12_TornDown) /\ [][C12_StreamAbandoned]_vars

\* a response with 2 bytes of extras was read for a 4-byte destination
C12_Witness ==
    /\ Returned("perform") /\ IsNet(last.err)
    /\ m.ResvOrStatus = 0 /\ m.ExtraLen = 2 /\ m.oextras = <<4>>
    /\ C12_Malformed(m)
    /\ C12_ReadAt(sc.events, Len(sc.events) - 1)
    /\ sc.events[Len(sc.events)].e = "close"
----------------------------------------------------------------------------
(* C13: send of a msg with an element of extrasIn that is no uint8,        *)
(* uint16, uint32 or uint64 returns an error; it does not panic.           *)

C13_UnknownExtraIsError ==
    (last.op = "send" /\ HasUnknownExtra(last.req.iextras)) =>
      ~last.panic /\ ~last.err.isNil

----------------------------------------------------------------------------
(* C14: over any sequence of acquires and releases, getBodyBuffer(s)       *)
(* returns a buffer of length at least s; every buffer in the small,       *)
(* medium or large pool has capacity exactly 256, 4096 or 65536 and is     *)
(* handed out again only for a request of that class; a buffer acquired    *)
(* for s > 65536 is never in a pool.                                       *)

C14_Class(size) ==
    IF size > 65536 THEN "none"
    ELSE IF size > 4096 THEN "large"
    ELSE IF size > 256 THEN "medium"
    ELSE "small"

C14_Pooled(id) == arena[id].at \in {"small", "medium", "large"}

C14_Acquired ==
    last.op = "acquire" =>
      /\ ~last.panic
      /\ last.id \in 1..Len(arena)
      /\ arena[last.id].at = "held"
      /\ arena[last.id].len >= last.size
      /\ arena[last.id].len <= arena[last.id].cap
      /\ last.from \in {"new", C14_Class(last.size)}

C14_Pools ==
    \A id \in 1..Len(arena) :
      /\ arena[id].at = "small" => arena[id].cap = 256
      /\ arena[id].at = "medium" => arena[id].cap = 4096
      /\ arena[id].at = "large" => arena[id].cap = 65536
      /\ arena[id].cap > 65536 => ~C14_Pooled(id)

C14_ArenaCorrect == C14_Acquired /\ C14_Pools

\* a released buffer is handed out again, for a size other than the one it
\* was last acquired with
C14_Witness ==
    /\ last.op = "acquire"
    /\ last.from = "large"
    /\ last.size = 65536
    /\ \E id \in 1..Len(arena) : arena[id].cap > 65536 /\ arena[id].at = "dropped"

----------------------------------------------------------------------------
(* C15: every body buffer a recv gets is put back exactly once before the  *)
(* recv returns, whichever way it returns; a recv that fails on the header *)
(* gets no buffer; between calls the connection holds no buffer.           *)

C15_Puts(id) == { j \in 1..Len(sc.bufs) : sc.bufs[j].op = "put" /\ sc.bufs[j].id = id }

C15_Gets(id) == { j \in 1..Len(sc.bufs) : sc.bufs[j].op = "get" /\ sc.bufs[j].id = id }

C15_ReleasedOnce ==
    \A i \in 1..Len(sc.bufs) :
      /\ Cardinality(C15_Gets(sc.bufs[i].id)) = 1
      /\ Cardinality(C15_Puts(sc.bufs[i].id)) = 1
      /\ \A g \in C15_Gets(sc.bufs[i].id) : \A p \in C15_Puts(sc.bufs[i].id) : g < p

C15_EndedOn(how) ==
    /\ last.op = "recv" /\ ~last.panic
    /\ sc.events # <<>>
    /\ sc.events[Len(sc.events)].e = "recv"
    /\ sc.events[Len(sc.events)].how = how

C15_OneBufferPerBody ==
    /\ C15_EndedOn("header") => sc.bufs = <<>>
    /\ (\E how \in {"body", "extras", "key", "decoded"} : C15_EndedOn(how)) =>
         Len(sc.bufs) = 2

C15_BuffersReleased == C15_ReleasedOnce /\ C15_OneBufferPerBody

\* a recv that failed on a destination of unsupported type put its buffer
\* back
C15_Witness ==
    /\ C15_EndedOn("extras")
    /\ \E i \in 1..Len(m.oextras) : m.oextras[i] = 0
    /\ ~last.err.isNil
    /\ Len(sc.bufs) = 2

----------------------------------------------------------------------------
(* C16: whatever the snapshot slot held before, after backup(m), a send    *)
(* and a receive (successful or failed) that change m in place, and        *)
(* restore(m), the header, the key, the value, iextras and the             *)
(* destinations' descriptors oextras of m are those m had at backup, with  *)
(* no element of an earlier snapshot among them.                           *)

C16_RestoreGivesBackup ==
    last.op = "restore" =>
      /\ HeaderOf(m) = HeaderOf(last.req)
      /\ m.key = last.req.key
      /\ m.val = last.req.val
      /\ m.iextras = last.req.iextras
      /\ m.oextras = last.req.oextras

\* the msg restored had been changed by a receive that failed, and the slot
\* holds more elements than the snapshot, left by an earlier one
C16_Witness ==
    /\ last.op = "restore"
    /\ ~last.err.isNil
    /\ HeaderOf(last.fed) # HeaderOf(last.req)
    /\ Len(sc.backupMsg.iextras.arr) > sc.backupMsg.iextras.len
    /\ Len(sc.backupMsg.oextras.arr) > sc.backupMsg.oextras.len

----------------------------------------------------------------------------
(* C17: when the server answers the stat request with n >= 0 entries of    *)
(* status 0 with a key and then a message with key length 0, performStats  *)
(* returns no error and exactly the pairs of the entries, a key sent more  *)
(* than once having its last value; it reads nothing after the message     *)
(* that ends the list and leaves the connection connected.                 *)

C17_Keys(es) == { es[i].k : i \in 1..Len(es) }

C17_LastOf(es, k) ==
    es[CHOOSE i \in 1..Len(es) :
         es[i].k = k /\ \A j \in (i + 1)..Len(es) : es[j].k # k].v

C17_Map(es) == [k \in C17_Keys(es) |-> C17_LastOf(es, k)]

C17_Sent ==
    /\ last.op = "performStats" /\ ~last.panic
    /\ \E i \in 1..Len(sc.events) : sc.events[i].e = "send" /\ sc.events[i].how = "ok"

C17_StatsCollected ==
    C17_Sent =>
      /\ last.err.isNil
      /\ last.stats = C17_Map(last.fed.entries)
      /\ sc.conn = 1 /\ sc.rw = 1 /\ sc.socks[1].open
      /\ Len(sc.socks[1].rbuf) >= Len(last.fed.trailer)
      /\ Take(sc.socks[1].rbuf, Len(last.fed.trailer)) = last.fed.trailer

\* a list in which a key comes twice with two values, followed by more
\* bytes of the server
C17_Witness ==
    /\ C17_Sent
    /\ last.fed.entries = <<StatEntry(sFoo, sBar), StatEntry(sFoo, sWorld)>>
    /\ last.fed.trailer # <<>>
    /\ last.stats = [k \in {sFoo} |-> sWorld]

----------------------------------------------------------------------------
(* C18: when performStats returns an error raised by send or by a recv of  *)
(* its loop (a network error, a malformed frame or a response of non-zero  *)
(* status), conn and rw are nil and the socket is closed.                  *)

C18_StatsFailed ==
    /\ last.op = "performStats" /\ ~last.panic
    /\ ~last.err.isNil
    /\ \E i \in 1..Len(sc.events) : sc.events[i].e = "send" /\ sc.events[i].op = opStat

C18_StatsErrorDisconnects ==
    C18_StatsFailed =>
      /\ sc.conn = 0 /\ sc.rw = 0
      /\ \A i \in 1..Len(sc.events) :
           (sc.events[i].e = "send" /\ sc.events[i].op = opStat) =>
             ~sc.socks[sc.events[i].sock].open

----------------------------------------------------------------------------
(* C19: the k-th call of send on a serverConn, whatever request it sends   *)
(* (auth, quit, one that fails) and whichever socket it writes to, carries *)
(* the opaque (k - 1) mod 2^32: a connection that made s sends before      *)
(* gives its next sends s, s + 1, ... mod 2^32, the one after 2^32 - 1     *)
(* being 0.                                                                *)

\* (x + n) mod 2^32, for n below 2^15
C19_Plus(x, n) ==
    <<(x[1] + ((x[2] + n) \div 65536)) % 65536, (x[2] + n) % 65536>>

\* the requests handed to the writers of sockets 1..n, in order
RECURSIVE C19_Handed(_)
C19_Handed(n) ==
    IF n = 0 THEN <<>> ELSE C19_Handed(n - 1) \o sc.socks[n].out

C19_Carried(req) == Uint(4, SubSeq(req.bytes, 13, 16))

C19_From(s, reqs) ==
    /\ sc.opq = C19_Plus(s, Len(reqs))
    /\ \A k \in 1..Len(reqs) :
         Len(reqs[k].bytes) >= 16 => C19_Carried(reqs[k]) = C19_Plus(s, k - 1)

C19_OpaqueCounts ==
    ~last.panic => \E s \in OpaqueStarts : C19_From(s, C19_Handed(Len(sc.socks)))

\* the sends of a teardown and a re-dial, the opaque passing from 2^32 - 1
\* to 0 between two sockets or on one
C19_Witness ==
    /\ ~last.panic
    /\ Len(sc.socks) >= 2
    /\ \E k \in 2..Len(C19_Handed(Len(sc.socks))) :
         /\ \A j \in {k - 1, k} : Len(C19_Handed(Len(sc.socks))[j].bytes) >= 16
         /\ C19_Carried(C19_Handed(Len(sc.socks))[k - 1]) = <<65535, 65535>>
         /\ C19_Carried(C19_Handed(Len(sc.socks))[k]) = <<0, 0>>
    /\ \E k \in 1..Len(C19_Handed(Len(sc.socks))) : ~C19_Handed(Len(sc.socks))[k].ok
    /\ \E k \in 1..Len(C19_Handed(Len(sc.socks))) : C19_Handed(Len(sc.socks))[k].op = opAuthStart

----------------------------------------------------------------------------
(* C20: quit on a connection with a socket sends the quit message once,    *)
(* whatever comes of it, and closes the socket; quit on a connection       *)
(* without a socket neither dials nor sends.  When quit returns, conn and  *)
(* rw are nil, and the next perform dials before it sends anything.        *)

C20_Live ==
    last.conn0 # 0 =>
      /\ Cardinality(SendsIn(sc.events)) = 1
      /\ \A i \in SendsIn(sc.events) :
           sc.events[i].op = opQuit /\ sc.events[i].sock = last.conn0
      /\ ~sc.socks[last.conn0].open

C20_Disconnected ==
    last.conn0 = 0 => SendsIn(sc.events) = {}

C20_Returned ==
    last.op = "quit" =>
      /\ ~last.panic
      /\ DialsIn(sc.events) = {}
      /\ C20_Live
      /\ C20_Disconnected
      /\ sc.conn = 0 /\ sc.rw = 0

C20_Redials ==
    (last.op = "quit" /\ last'.op = "perform") =>
      /\ sc'.events # <<>>
      /\ sc'.events[1].e = "dial"

C20_QuitDisconnects == [](C20_Returned) /\ [][C20_Redials]_vars

----------------------------------------------------------------------------
(* C21: at most one perform is in flight on a connection: while a caller   *)
(* is between taking the lock and giving it back no other caller is, the   *)
(* connection and a caller's msg change only in the steps of the caller    *)
(* that holds the lock, and the response a caller decodes is the answer to *)
(* the request it sent.                                                    *)

C21_InFlight == { c \in Callers : last.pc[c] \in {"locked", "sent", "returning"} }

C21_OneInFlight ==
    /\ Cardinality(C21_InFlight) <= 1
    /\ \A c \in C21_InFlight : last.lock = c
    /\ ~last.panic

C21_OwnResponse ==
    \A c \in Callers :
      (/\ last.pc[c] \in {"returning", "done"}
       /\ last.sent[c] # <<>>
       /\ ~IsNet(last.err[c])) => m[c].Opaque = last.sent[c]

C21_HolderSteps ==
    (sc' # sc \/ m' # m) =>
      /\ last.lock # 0
      /\ last'.by = last.lock
      /\ \A c \in Callers \ {last.lock} : m'[c] = m[c] /\ c \notin C21_InFlight

----------------------------------------------------------------------------
(* C22: connections running recv concurrently never hold the same body     *)
(* buffer: from getBodyBuffer to putBodyBuffer a buffer is held by one     *)
(* recv.  The key, the value and the extras a recv stored in its msg are   *)
(* those of the response it read, and stay so when the buffer is used and  *)
(* overwritten by another recv.                                            *)

C22_Holding == { c \in Callers : last.pc[c] \in {"got", "filled", "decoded"} }

C22_OneOwner ==
    ~last.panic =>
      /\ \A c \in C22_Holding :
           /\ last.buf[c] \in 1..Len(arena)
           /\ arena[last.buf[c]].at = "held"
      /\ \A c, d \in C22_Holding : c # d => last.buf[c] # last.buf[d]

C22_ResultKept ==
    \A c \in Callers :
      last.pc[c] \in {"decoded", "done"} =>
        /\ m[c].key = last.fed[c].key
        /\ m[c].val = last.fed[c].val
        /\ m[c].dest = <<Uint(4, last.fed[c].extras)>>

C22_BuffersNotShared == C22_OneOwner /\ C22_ResultKept

\* a recv has returned one response, and the buffer it used holds the
\* other response, read into it by another recv
C22_Witness ==
    \E c, d \in Callers :
      /\ c # d
      /\ last.fed[c] # last.fed[d]
      /\ last.pc[c] = "done"
      /\ last.pc[d] \in {"filled", "decoded", "done"}
      /\ Len(arena) = 1
      /\ m[c].key = last.fed[c].key
      /\ Take(last.data[1], 4) = last.fed[d].extras

----------------------------------------------------------------------------
(* C23: after backup(m), a perform(m) that failed once recv had stored the *)
(* header of a response in m, and restore(m), the request that perform(m)  *)
(* writes on another connection is, byte for byte, the request the first   *)
(* perform wrote, but for the four bytes of the opaque: opcode, data type, *)
(* reserved field, cas, extras, key and value are the same.                *)

\* what a connection has handed to the writers of its sockets, in order
C23_Written(st) ==
    Concat([i \in 1..Len(st.socks) |->
              Concat([j \in 1..Len(st.socks[i].out) |-> st.socks[i].out[j].bytes])])

\* a request without the bytes of its opaque (bytes 13 to 16)
C23_ButOpaque(bytes) == Take(bytes, 12) \o Drop(bytes, 16)

\* the first perform failed after recv had parsed a header into m
C23_FailedAfterRecv ==
    /\ ~last.first.err.isNil
    /\ \E i \in 1..Len(last.first.events) :
         /\ last.first.events[i].e = "recv"
         /\ last.first.events[i].how # "header"

\* the retry handed a whole request to its socket
C23_Retried ==
    /\ last.op = "retry" /\ ~last.panic
    /\ \E i \in 1..Len(last.other.events) :
         last.other.events[i].e = "send" /\ last.other.events[i].how = "ok"

C23_ReplayIdentical ==
    C23_FailedAfterRecv /\ C23_Retried =>
      /\ Len(C23_Written(sc)) >= 24
      /\ C23_ButOpaque(C23_Written(last.other)) = C23_ButOpaque(C23_Written(sc))

\* the failed attempt had changed the header of m, and the retry went out
\* with another opaque
C23_Witness ==
    /\ C23_FailedAfterRecv /\ C23_Retried
    /\ HeaderOf(last.first.m) # HeaderOf(Stamp(last.req, last.first.m.ExtraLen,
                                              last.first.m.KeyLen,
                                              last.first.m.Opaque))
    /\ last.first.m.CAS # last.req.CAS
    /\ C23_Written(last.other) # C23_Written(sc)
    /\ C23_ButOpaque(C23_Written(last.other)) = C23_ButOpaque(C23_Written(sc))

----------------------------------------------------------------------------
(* C24: over any sequence of perform, performStats and quit, connects that *)
(* fail included, every socket dialed is closed at most once; and a send   *)
(* or recv that fails ends the exchange: no other request or response      *)
(* follows it in the call, its socket is closed by that call exactly once, *)
(* and perform and performStats return the one network error.             *)

C24_Closes(ev, s) == { i \in 1..Len(ev) : ev[i].e = "close" /\ ev[i].sock = s }

C24_ClosedOnce ==
    \A s \in 1..Len(sc.socks) :
      /\ sc.socks[s].closes <= 1
      /\ sc.socks[s].open <=> sc.socks[s].closes = 0
      /\ Cardinality(C24_Closes(sc.events, s)) <= 1

C24_SingleError ==
    ~last.panic =>
      \A i \in 1..Len(sc.events) :
        IOFailedAt(sc.events, i) =>
          /\ \A j \in (i + 1)..Len(sc.events) : sc.events[j].e \notin {"send", "recv"}
          /\ Cardinality(C24_Closes(sc.events, sc.events[i].sock)) = 1
          /\ last.op \in {"perform", "performStats"} => IsNet(last.err)

C24_TeardownOnce == C24_ClosedOnce /\ C24_SingleError

\* the exchange of auth failed on the network inside connect: sendRecv has
\* closed the socket and connect, which closes on the error of auth, has not
\* closed it again
C24_Witness ==
    /\ Returned("perform") /\ ConnectFailed(sc.events)
    /\ \E i \in 1..Len(sc.events) :
         /\ IOFailedAt(sc.events, i)
         /\ sc.socks[sc.events[i].sock].closes = 1
    /\ IsNet(last.err)

----------------------------------------------------------------------------
(* C25: when perform returns an error whose status is not the network      *)
(* error status, the socket is open, conn and rw are what they were (those *)
(* of the socket the request went out on), and the next perform sends on   *)
(* that socket without dialing and without authenticating.                 *)

\* perform returned an error of another status than the network error
C25_StatusError ==
    Returned("perform") /\ ~last.err.isNil /\ ~IsNet(last.err)

\* the error is the status of the response to the caller's request: connect
\* was not called or did not fail
C25_OfRequest == C25_StatusError /\ ~ConnectFailed(sc.events)

C25_Kept ==
    /\ sc.conn # 0 /\ sc.rw = sc.conn
    /\ sc.socks[sc.conn].open /\ sc.socks[sc.conn].closes = 0
    /\ last.conn0 # 0 => sc.conn = last.conn0 /\ sc.rw = last.rw0
    /\ \A i \in 1..Len(sc.events) : sc.events[i].e # "close"

C25_NextOnSameSocket ==
    /\ DialsIn(sc'.events) = {}
    /\ Len(sc'.socks) = Len(sc.socks)
    /\ sc'.events # <<>>
    /\ sc'.events[1].e = "send" /\ sc'.events[1].op = last'.req.Op
    /\ \A i \in SendsIn(sc'.events) :
         sc'.events[i].sock = sc.conn /\ sc'.events[i].op \notin AuthOps

\* the statement for every error that is not a network error
C25_AnyStatusErrorKeeps ==
    /\ [](C25_StatusError => C25_Kept)
    /\ [][(C25_StatusError /\ last'.op = "perform" /\ ncalls' = ncalls + 1)
            => C25_NextOnSameSocket]_vars

\* the statement for the status errors of the response to the request
C25_StatusErrorKeeps ==
    /\ [](C25_OfRequest => C25_Kept)
    /\ [][(C25_OfRequest /\ last'.op = "perform" /\ ncalls' = ncalls + 1)
            => C25_NextOnSameSocket]_vars

\* a second perform has sent on the socket on which the first got its
\* status error
C25_Witness ==
    /\ ncalls = 2 /\ Returned("perform")
    /\ Len(sc.socks) = 1 /\ Len(sc.socks[1].out) >= 2
    /\ sc.socks[1].out[Len(sc.socks[1].out) - 1].op \in {opGet, opSet}
    /\ DialsIn(sc.events) = {}
    /\ last.conn0 = 1
    /\ sc.events[1].e = "send" /\ sc.events[1].sock = 1

----------------------------------------------------------------------------
(* C26: when perform returns with the connection still connected, after a  *)
(* success or a status error, recv has consumed the 24 bytes of the header *)
(* and the bodyLength bytes after it, no more and no fewer: what follows   *)
(* them on the socket is still unread.  When recv got fewer bytes than the *)
(* frame has, or a malformed frame, the connection is disconnected on      *)
(* return.  So when the server only sends one frame for a request, nothing *)
(* is unread on the socket when perform returns.                           *)

C26_Recvs(ev) == { i \in 1..Len(ev) : ev[i].e = "recv" }

C26_Len(n) == n[1] * 65536 + n[2]

\* the connection as sendRecv finds it in a perform that starts from st
C26_Ready(st) ==
    IF st.conn # 0 THEN { Begin(st) }
    ELSE { c.st : c \in { x \in connect(Begin(st)) : ~x.panic /\ x.err.isNil } }

\* of stream, the frame at its head is the one mm holds, and what follows
\* that frame is what the socket of st still has
C26_ConsumedFrame(st, mm, stream) ==
    /\ Len(stream) >= 24 + C26_Len(mm.BodyLen)
    /\ HeaderOf(ParseHeader(mm, Take(stream, 24))) = HeaderOf(mm)
    /\ Pending(st) = Drop(stream, 24 + C26_Len(mm.BodyLen))

\* a perform that returns connected, whatever the server had sent
C26_AlignedStep ==
    (last'.op = "perform" /\ ~last'.panic /\ sc'.conn # 0) =>
      /\ C26_Recvs(sc'.events) # {}
      /\ \A i \in C26_Recvs(sc'.events) :
           sc'.events[i].how = "decoded" /\ i = Len(sc'.events)
      /\ \A st \in C26_Ready(sc), chunk \in Answers(last'.req.Op) :
           sendRecv(st, last'.req, [wf |-> 0, chunk |-> chunk])
               = Ret(sc', m', last'.err)
             => C26_ConsumedFrame(sc', m', Pending(st) \o chunk)

C26_BrokenDisconnects ==
    \A i \in C26_Recvs(sc.events) :
      (Returned("perform") /\ sc.events[i].how # "decoded") =>
        /\ sc.conn = 0 /\ sc.rw = 0
        /\ ~sc.socks[sc.events[i].sock].open
        /\ IsNet(last.err)

C26_OneFramePerRequest ==
    (last.op \in {"new", "perform"} /\ ~last.fed.ahead) => Pending(sc) = <<>>

C26_FrameAligned ==
    /\ [](C26_BrokenDisconnects /\ C26_OneFramePerRequest)
    /\ [][C26_AlignedStep]_vars

\* perform decoded the frame that was ahead on the socket and left the
\* server's answer to this request unread
C26_Witness ==
    /\ Returned("perform") /\ sc.conn # 0
    /\ last.fed.rbuf # <<>>
    /\ Pending(sc) \in Answers(last.req.Op) \ { <<>> }
    /\ sc.events[Len(sc.events)].how = "decoded"

----------------------------------------------------------------------------
(* C28: recv matches a response to the request neither by its opaque nor   *)
(* by its opcode or magic: when the request was sent and the next frame on *)
(* the socket is a whole response of status 0, perform returns nil,        *)
(* whatever magic, opcode and opaque the frame carries, and the header of  *)
(* the msg holds the values of the frame.                                  *)

\* the bytes the destinations oextras take
RECURSIVE C28_Wanted(_)
C28_Wanted(oextras) ==
    IF oextras = <<>> THEN 0 ELSE Head(oextras) + C28_Wanted(Tail(oextras))

\* the frame at the head of what was unread when the call began: whole, of
\* status 0, its extras and key within its body, and its extras, when it
\* has any, as long as the destinations of the request take
C28_WholeFrame(stream) ==
    /\ Len(stream) >= 24
    /\ stream[7] = 0 /\ stream[8] = 0
    /\ stream[9] = 0 /\ stream[10] = 0
    /\ Len(stream) >= 24 + stream[11] * 256 + stream[12]
    /\ stream[5] + stream[3] * 256 + stream[4] <= stream[11] * 256 + stream[12]
    /\ stream[5] = 0 \/ C28_Wanted(last.req.oextras) <= stream[5]

C28_Sent ==
    /\ Returned("perform")
    /\ \E i \in SendsIn(sc.events) :
         sc.events[i].op = last.req.Op /\ sc.events[i].how = "ok"

C28_Uncorrelated ==
    (C28_Sent /\ C28_WholeFrame(last.fed.rbuf)) =>
      /\ last.err.isNil
      /\ sc.conn # 0 /\ sc.socks[sc.conn].open
      /\ HeaderOf(m) = HeaderOf(ParseHeader(m, Take(last.fed.rbuf, 24)))

\* perform returned nil on a frame that has the magic of a request, the
\* opcode of stat and an opaque the connection never sent
C28_Witness ==
    /\ C28_Sent /\ C28_WholeFrame(last.fed.rbuf)
    /\ last.err.isNil
    /\ m.Magic = magicSend /\ m.Magic # magicRecv
    /\ m.Op = opStat /\ m.Op # last.req.Op
    /\ m.Opaque = <<65535, 65534>> /\ m.Opaque # last.opq0
    /\ m.key = sBar /\ m.val = sWorld

----------------------------------------------------------------------------
(* C27: recv of server_conn.go, which reads the body into a buffer of the  *)
(* pool, and recv of part_000, which reads it into a buffer made for it,   *)
(* give the same result for every stream, every list of extras             *)
(* destinations and whatever the buffer of the pool held: the same header, *)
(* key and value in the msg, the same values in the destinations, the same *)
(* error, and the same bytes left on the socket.                           *)

C27_Equivalent ==
    last.op = "recv" =>
      /\ last.fed.panic = last.panic
      /\ last.fed.err = last.err
      /\ last.fed.m = m
      /\ last.fed.st.socks = sc.socks
      /\ last.fed.st.events = sc.events
      /\ last.fed.st.conn = sc.conn /\ last.fed.st.rw = sc.rw

\* a response with extras, key and value was decoded into a buffer of the
\* pool that held more bytes than its body has
C27_Witness ==
    /\ last.op = "recv" /\ last.err.isNil /\ ~last.panic
    /\ Len(sc.stale) > Len(m.key) + Len(m.val) + m.ExtraLen
    /\ m.key = sFoo /\ m.val = sWorld
    /\ m.dest # <<>> /\ m.dest[1] # Zero(m.oextras[1])
    /\ last.fed.m = m

====
